---- MODULE Spec2Model ----
(***************************************************************************)
(* Token lifecycle of SwiftAuthenticator (src/src/SwiftAuthenticator.ts):  *)
(* the cached token, the single-flight refresh promise chain               *)
(* refreshToken().then().catch().finally(), invalidate(), and the clock.   *)
(*                                                                         *)
(* Time is in milliseconds, as Date.now() gives it; the clock advances in  *)
(* steps of TimeUnitMs.  A refresh operation is identified by the ordinal  *)
(* of its POST to the authentication endpoint, and the endpoint is taken   *)
(* to issue a token distinct from every token it issued before, so the     *)
(* token of exchange k is written k.  payload.token.expires_at is taken    *)
(* as the instant (ms) that new Date(expires_at).getTime() yields.         *)
(*                                                                         *)
(* fetchWithRetry (src/src/http.ts): one call, attempt by attempt, with    *)
(* its retry policy, backoff sleeps and per-attempt timer (SpecHttp).      *)
(*                                                                         *)
(* SwiftAdapter (src/src/SwiftAdapter.ts): getFile and createFile through  *)
(* authFetchWithRetry, composed with the authenticator and fetchWithRetry  *)
(* above (SpecAdapter).  Header maps are JavaScript objects (keys told     *)
(* apart by spelling, in insertion order); what fetch sends of them is     *)
(* given by HeaderOnWire.  SpecOps runs any one of the operations          *)
(* (getFile, headFile, deleteFile, createFile, createFileStream) with its  *)
(* options; SpecLocation applies getFileLocation to file names and         *)
(* configurations; SpecConcurrent runs one operation per caller side by    *)
(* side on an adapter that already holds a token; SpecShared runs one      *)
(* operation with its fetchWithRetry calls, and counts its requests and    *)
(* exchanges, while another caller uses the authenticator.                 *)
(*                                                                         *)
(* SpecHttpLive and SpecLive are SpecHttp and the token manager under the  *)
(* fairness the event loop gives: settled promises and fired timers have   *)
(* their continuations run.                                                *)
(***************************************************************************)
EXTENDS Integers, Sequences, FiniteSets, TLC

\* ---- bounds of the model ------------------------------------------------
NumCallers == 2
MaxPosts == 2
MaxTime == 2

\* ---- program constants and input sets -----------------------------------
TimeUnitMs == 5 * 60 * 1000
FallbackTtlMs == 10 * 60 * 1000
DefaultClockSkewMs == 60 * 1000
ClockSkewChoices == {DefaultClockSkewMs, 15 * 60 * 1000}
AuthStatuses == {200, 201, 401, 503}
ExpiryValues == {i * TimeUnitMs : i \in 0..(MaxTime + 1)}

Callers == 1..NumCallers
NoToken == [token |-> 0, expiresAt |-> 0]
IdleCaller == [pc |-> "idle", op |-> 0, after |-> "no"]
NoResult == [via |-> "none", kind |-> "none", val |-> 0, usable |-> FALSE]

VARIABLES
    now,          \* Date.now()
    clockSkewMs,  \* this.clockSkewMs
    state,        \* this.state (AuthState)
    current,      \* this.current (NoToken when undefined)
    inflight,     \* this.inflight: 0 when undefined, else the refresh operation
    ops,          \* the refresh operations started so far, in order
    callers,      \* each caller: idle, or waiting on the promise of a refresh
                  \* (after: the value of invPending when it called getToken())
    last,         \* the last result getToken() handed to a caller: from the
                  \* cache or from a refresh, a token or an error, and whether
                  \* the token was within its expiry at that instant
    invPending,   \* "no", or invalidate() was called and no getToken() since:
                  \* "idle"/"busy" as no refresh/a refresh was in flight at the call
    invFlip       \* flipped by every invalidate() call

vars == <<now, clockSkewMs, state, current, inflight, ops, callers, last, invPending, invFlip>>

nPosts == Len(ops)

\* ---- fetchWithRetry (src/src/http.ts): the state of one call -------------
VARIABLES
    initMethod,   \* init.method as the caller gave it ("undefined": not given)
    cfg,          \* {...defaultRetryPolicy, ...policy}; jitterRatio is kept in
                  \* percent (jitterPct / 100)
    hpc,          \* where the call is: "none" (no call), "loop" (top of the for
                  \* loop), "fetching", "sleeping", "returned", "thrown"
    attempt,      \* the loop variable
    sent,         \* requests handed to _fetch by this call
    sleeps,       \* backoff sleeps started by this call
    delay,        \* ms of the sleep in progress (0 when not sleeping)
    lastExp,      \* exp of the last backoff() computed by this call
    got,          \* how the last attempt ended: a status, "network",
                  \* "AbortError", or "none"
    classified,   \* what mayRetryStatus gave for the last response ("none"
                  \* before any response)
    run,          \* "none", the one way every attempt so far ended, or "mixed"
    result        \* what the call returned or threw

httpVars == <<initMethod, cfg, hpc, attempt, sent, sleeps, delay, lastExp, got,
              classified, run, result>>

\* ---- SwiftAdapter (src/src/SwiftAdapter.ts): one object operation ---------
VARIABLES
    op,           \* the operation in progress and what it did so far
    loc,          \* a getFileLocation call: the adapter's directAccess option,
                  \* the config and filename it is given, and what it returned
    cops,         \* operations running side by side, one per caller: where
                  \* each is and the tokens it was given
    tally         \* of the operation op, when it runs among other callers:
                  \* the requests handed to _fetch for the store and the
                  \* authentication exchanges its getToken() calls started

callVars == <<loc, cops, tally>>
opVars == <<op, callVars>>

allVars == <<vars, httpVars, opVars>>

\* how an attempt ends: a response with its status, or _fetch rejecting with
\* an error of that name ("network": any error not named AbortError)
Response(status) == [kind |-> "response", status |-> status]
Failure(name) == [kind |-> name, status |-> 0]
Nothing == [kind |-> "none", status |-> 0]
Mixed == [kind |-> "mixed", status |-> 0]
NotSettled == [how |-> "none", what |-> Nothing]

NoOverride == [m \in {} |-> {}]
PutRetry503 == [m \in {"PUT"} |-> {503}]
PostRetry500 == [m \in {"POST"} |-> {500}]

\* attemptTimeoutMs (8000) is not a field here: the timer firing is the
\* action AttemptTimesOut
defaultRetryPolicy ==
    [maxRetries |-> 4, baseDelayMs |-> 200, maxDelayMs |-> 4000, jitterPct |-> 20,
     retryOnStatus |-> {408, 425, 429, 500, 502, 503, 504},
     retryOnNetworkErrors |-> TRUE,
     idempotentMethods |-> {"GET", "HEAD", "DELETE"},
     forceRetryMethods |-> NoOverride]

\* const cfg = {...defaultRetryPolicy, ...policy}
WithDefaults(policy) ==
    [k \in DOMAIN defaultRetryPolicy |->
        IF k \in DOMAIN policy THEN policy[k] ELSE defaultRetryPolicy[k]]

NoCall ==
    /\ initMethod = "undefined"
    /\ cfg = defaultRetryPolicy
    /\ hpc = "none"
    /\ attempt = 0
    /\ sent = 0
    /\ sleeps = 0
    /\ delay = 0
    /\ lastExp = 0
    /\ got = Nothing
    /\ classified = "none"
    /\ run = Nothing
    /\ result = NotSettled

NoExchange == [sent |-> 0, result |-> NotSettled, uniform |-> FALSE]
NoOutcome == [kind |-> "none", error |-> "none", status |-> 0]
\* pc: "idle", "token1"/"token2" (awaiting the first/second getToken()),
\* "exchange1"/"exchange2" (in the first/second fetchWithRetry), "done";
\* headers: the header map of the request init in use; tokens: what getToken()
\* returned to the operation; log: its calls of getToken, invalidate and
\* fetchWithRetry in order, with the token returned or attached; fromCache:
\* the first getToken() made no exchange; posts0: nPosts when it began;
\* etagHex, ignoreNotFound: the options of that name ("none", "undefined": not
\* given); conditional: the option of createFile ("true" for true, else the
\* tag) and ifMatchETag of deleteFile;
\* first, second: how its fetchWithRetry calls went (requests sent, what
\* the call returned or threw, whether every attempt ended like the last);
\* outcome: what the operation returned or threw
IdleOp ==
    [pc |-> "idle", kind |-> "none", conditional |-> "none", extra |-> << >>,
     etagHex |-> "none", ignoreNotFound |-> "undefined",
     headers |-> << >>, tokens |-> {}, log |-> << >>, fromCache |-> FALSE, posts0 |-> 0,
     first |-> NoExchange, second |-> NoExchange, outcome |-> NoOutcome]
NoOperation == op = IdleOp

NoLocation ==
    [directAccess |-> "undefined", mount |-> "", applicationId |-> "",
     filename |-> << >>, result |-> "none"]
NoLocationCall == loc = NoLocation

\* pc: "idle", "token" (awaiting the first getToken()), "sent" (its request is
\* with the store), "reauth" (awaiting the getToken() after invalidate()),
\* "resent", "done", "failed"; sent: the token its request carried; at: nPosts
\* when its 401/403 was handled (0 before); fresh: the token of the re-sent
\* request
IdleConcurrentOp == [pc |-> "idle", sent |-> 0, rejected |-> FALSE, at |-> 0, fresh |-> 0]
NoConcurrentOps == cops = [c \in Callers |-> IdleConcurrentOp]
NoTally == [requests |-> 0, started |-> 0]
NothingCounted == tally = NoTally

\* ---- SwiftAuthenticator ---------------------------------------------------
\* new SwiftAuthenticator(opts)
NewAuthenticator ==
    /\ now = 0
    /\ clockSkewMs \in ClockSkewChoices
    /\ state = "UNAUTHENTICATED"
    /\ current = NoToken
    /\ inflight = 0
    /\ ops = << >>
    /\ callers = [c \in Callers |-> IdleCaller]
    /\ last = NoResult
    /\ invPending = "no"
    /\ invFlip = FALSE

Init ==
    /\ NewAuthenticator
    /\ NoCall
    /\ NoOperation
    /\ NoLocationCall
    /\ NoConcurrentOps
    /\ NothingCounted

isTokenValidInverted == current # NoToken /\ now > current.expiresAt

isTokenValid == current # NoToken /\ now < current.expiresAt

HasInflightNever == FALSE

HasInflightByState == state = "AUTHENTICATING"

HasInflight == inflight # 0

\* payload?.token?.expires_at of a response without one
NoExpiry == 0 - 1
NewOp ==
    [stage |-> "posting", status |-> 0, hasToken |-> FALSE, failure |-> "none", exp |-> 0,
     reported |-> NoExpiry, posts |-> 1]

\* refreshTokenShared(): join the refresh in flight, or start one
\* (refreshToken() runs synchronously up to its POST).
refreshTokenShared(c) ==
    IF HasInflight
    THEN /\ callers' = [callers EXCEPT ![c] = [pc |-> "waiting", op |-> inflight, after |-> invPending]]
         /\ UNCHANGED <<state, inflight, ops>>
    ELSE /\ nPosts < MaxPosts
         /\ state' = "AUTHENTICATING"
         /\ ops' = Append(ops, NewOp)
         /\ inflight' = nPosts + 1
         /\ callers' = [callers EXCEPT ![c] = [pc |-> "waiting", op |-> nPosts + 1, after |-> invPending]]

GetToken(c) ==
    /\ callers[c].pc = "idle"
    /\ IF isTokenValid
       THEN /\ last' = [via |-> "cache", kind |-> "token", val |-> current.token,
                         usable |-> now < current.expiresAt]
            /\ UNCHANGED <<state, inflight, ops, callers>>
       ELSE /\ refreshTokenShared(c)
            /\ UNCHANGED last
    /\ invPending' = "no"
    /\ UNCHANGED <<now, clockSkewMs, current, invFlip>>

InvalidateCalled ==
    /\ invPending' = IF inflight = 0 THEN "idle" ELSE "busy"
    /\ invFlip' = ~invFlip

InvalidateStateOnly ==
    /\ current' = current
    /\ state' = IF state = "AUTHENTICATED" THEN "UNAUTHENTICATED" ELSE state
    /\ InvalidateCalled
    /\ UNCHANGED <<now, clockSkewMs, inflight, ops, callers, last>>

InvalidateWhenAuthenticated ==
    /\ current' = IF state = "AUTHENTICATED" THEN NoToken ELSE current
    /\ state' = IF state = "AUTHENTICATED" THEN "UNAUTHENTICATED" ELSE state
    /\ InvalidateCalled
    /\ UNCHANGED <<now, clockSkewMs, inflight, ops, callers, last>>

Invalidate ==
    /\ current' = NoToken
    /\ state' = IF state = "AUTHENTICATED" THEN "UNAUTHENTICATED" ELSE state
    /\ InvalidateCalled
    /\ UNCHANGED <<now, clockSkewMs, inflight, ops, callers, last>>

\* ---- refreshToken(): the exchange with the authentication endpoint --------
\* operation k moves to a stage; status and hasToken are the response it got
\* (status 0: none), failure is why refreshToken() threw, exp what it installed,
\* reported the expires_at its body gave (kept until the promise settles),
\* posts how many requests the operation has handed to _fetch
SetOp(k, stage, status, hasToken, failure, exp) ==
    [ops EXCEPT ![k] = [stage |-> stage, status |-> status, hasToken |-> hasToken,
                        failure |-> failure, exp |-> exp, reported |-> NoExpiry,
                        posts |-> ops[k].posts]]

\* a variant that posts once more after a transport error
AuthFetchFailsRetriesOnce(k) ==
    /\ k \in 1..nPosts
    /\ ops[k].stage = "posting"
    /\ ops' = IF ops[k].posts = 1
              THEN [ops EXCEPT ![k].posts = 2]
              ELSE SetOp(k, "rejected", 0, FALSE, "transport", 0)
    /\ UNCHANGED <<now, clockSkewMs, state, current, inflight, callers, last, invPending, invFlip>>

\* await this._fetch(authUrl, POST) rejects: transport error
AuthFetchFailsClearsCache(k) ==
    /\ k \in 1..nPosts
    /\ ops[k].stage = "posting"
    /\ ops' = SetOp(k, "rejected", 0, FALSE, "transport", 0)
    /\ current' = NoToken
    /\ UNCHANGED <<now, clockSkewMs, state, inflight, callers, last, invPending, invFlip>>

AuthFetchFails(k) ==
    /\ k \in 1..nPosts
    /\ ops[k].stage = "posting"
    /\ ops' = SetOp(k, "rejected", 0, FALSE, "transport", 0)
    /\ UNCHANGED <<now, clockSkewMs, state, current, inflight, callers, last, invPending, invFlip>>

AcceptsStatus200(status) == status = 201 \/ status = 200

AcceptsStatus(status) == status = 201

AcceptsToken(hasToken) == hasToken

\* await this._fetch(...) resolves with a response: its status and whether
\* x-subject-token is present and non-empty
AuthFetchResponds(k) ==
    /\ k \in 1..nPosts
    /\ ops[k].stage = "posting"
    /\ \E status \in AuthStatuses, hasToken \in BOOLEAN :
          ops' = IF ~AcceptsStatus(status)
                 THEN SetOp(k, "errBody", status, hasToken, "none", 0)
                 ELSE IF ~AcceptsToken(hasToken)
                      THEN SetOp(k, "rejected", status, hasToken, "noToken", 0)
                      ELSE SetOp(k, "jsonBody", status, hasToken, "none", 0)
    /\ UNCHANGED <<now, clockSkewMs, state, current, inflight, callers, last, invPending, invFlip>>

\* await safeReadBody(res) is over: throw 'Keystone auth failed: <status>'
AuthErrorBodyRead(k) ==
    /\ k \in 1..nPosts
    /\ ops[k].stage = "errBody"
    /\ ops' = SetOp(k, "rejected", ops[k].status, ops[k].hasToken, "status", 0)
    /\ UNCHANGED <<now, clockSkewMs, state, current, inflight, callers, last, invPending, invFlip>>

FallbackExpiry == now + FallbackTtlMs - clockSkewMs

AdjustedExpiryNoSkew(expires) == expires

AdjustedExpiry(expires) == expires - clockSkewMs

\* await res.json() is over (a body that does not parse reads as {}):
\* install the token with its skew-adjusted expiry and return it
AuthJsonRead(k) ==
    /\ k \in 1..nPosts
    /\ ops[k].stage = "jsonBody"
    /\ \E hasExpiry \in BOOLEAN, expires \in ExpiryValues :
          /\ hasExpiry \/ expires = 0
          /\ LET exp == IF hasExpiry THEN AdjustedExpiry(expires) ELSE FallbackExpiry
             IN /\ current' = [token |-> k, expiresAt |-> exp]
                /\ ops' = [SetOp(k, "fulfilled", ops[k].status, ops[k].hasToken, "none", exp)
                             EXCEPT ![k].reported = IF hasExpiry THEN expires ELSE NoExpiry]
    /\ UNCHANGED <<now, clockSkewMs, state, inflight, callers, last, invPending, invFlip>>

\* ---- the promise chain of refreshTokenShared() ---------------------------
\* .then((token) => ...) on a fulfilled refreshToken()
ThenCallback(k) ==
    /\ k \in 1..nPosts
    /\ ops[k].stage = "fulfilled"
    /\ state' = "AUTHENTICATED"
    /\ ops' = [ops EXCEPT ![k].stage = "thenDone"]
    /\ UNCHANGED <<now, clockSkewMs, current, inflight, callers, last, invPending, invFlip>>

CatchCallbackClearsCache(k) ==
    /\ k \in 1..nPosts
    /\ ops[k].stage = "rejected"
    /\ state' = "FAILED"
    /\ current' = NoToken
    /\ ops' = [ops EXCEPT ![k].stage = "catchDone"]
    /\ UNCHANGED <<now, clockSkewMs, inflight, callers, last, invPending, invFlip>>

\* .catch((err) => ...) on a rejected refreshToken()
CatchCallback(k) ==
    /\ k \in 1..nPosts
    /\ ops[k].stage = "rejected"
    /\ state' = "FAILED"
    /\ ops' = [ops EXCEPT ![k].stage = "catchDone"]
    /\ UNCHANGED <<now, clockSkewMs, current, inflight, callers, last, invPending, invFlip>>

\* what the promise of operation k settles with; usable records whether the
\* token is within its skew-adjusted expiry at the instant it is handed over
Outcome(k) ==
    IF ops[k].failure = "none"
    THEN [via |-> "refresh", kind |-> "token", val |-> k, usable |-> now < ops[k].exp]
    ELSE [via |-> "refresh", kind |-> "error", val |-> k, usable |-> FALSE]

InflightAfterFinallyOnSuccessOnly(k) == IF ops[k].failure = "none" THEN 0 ELSE inflight

InflightAfterFinally(k) == 0

\* a variant whose cleanup runs on success only
FinallyCallbackOnSuccessOnly(k) ==
    /\ k \in 1..nPosts
    /\ ops[k].stage = "thenDone"
    /\ inflight' = 0
    /\ ops' = SetOp(k, "settled", 0, FALSE, "none", 0)
    /\ callers' = [c \in Callers |->
          IF callers[c].pc = "waiting" /\ callers[c].op = k THEN IdleCaller ELSE callers[c]]
    /\ last' = IF \E c \in Callers : callers[c].pc = "waiting" /\ callers[c].op = k
               THEN Outcome(k) ELSE last
    /\ UNCHANGED <<now, clockSkewMs, state, current, invPending, invFlip>>

\* .finally(() => { this.inflight = undefined }), after which the promise
\* every waiter holds settles with the outcome of the operation
FinallyCallback(k) ==
    /\ k \in 1..nPosts
    /\ ops[k].stage \in {"thenDone", "catchDone"}
    /\ inflight' = InflightAfterFinally(k)
    /\ ops' = SetOp(k, "settled", 0, FALSE, "none", 0)
    /\ callers' = [c \in Callers |->
          IF callers[c].pc = "waiting" /\ callers[c].op = k THEN IdleCaller ELSE callers[c]]
    /\ last' = IF \E c \in Callers : callers[c].pc = "waiting" /\ callers[c].op = k
               THEN Outcome(k) ELSE last
    /\ UNCHANGED <<now, clockSkewMs, state, current, invPending, invFlip>>

Tick ==
    /\ now < MaxTime * TimeUnitMs
    /\ now' = now + TimeUnitMs
    /\ UNCHANGED <<clockSkewMs, state, current, inflight, ops, callers, last, invPending, invFlip>>

\* ---- fetchWithRetry (src/src/http.ts) --------------------------------------
\* bounds of the policies a call is given
MaxRetriesBound == 2
MaxDelayBound == 3

\* Math.random() is drawn from RandomSamples / RandomDenominator: 0, 1/2, 15/16
RandomDenominator == 16
RandomSamples == {0, 8, 15}
JitterPcts == {0, 20, 60, 150}

HttpStatuses == {200, 201, 204, 401, 403, 404, 412, 422, 500, 503}
RawMethods == {"undefined", "GET", "get", "PUT", "POST"}

\* the policies a call is given: one family varies the delays, the other the
\* classification of responses and failures
DelayPolicies ==
    {[maxRetries |-> n, baseDelayMs |-> b, maxDelayMs |-> m, jitterPct |-> j] :
        n \in 0..MaxRetriesBound, b \in 1..2, m \in 1..MaxDelayBound, j \in JitterPcts}
ClassPolicies ==
    {[maxRetries |-> n, baseDelayMs |-> 1, maxDelayMs |-> 2, retryOnStatus |-> s,
      retryOnNetworkErrors |-> e, idempotentMethods |-> i, forceRetryMethods |-> f] :
        n \in 0..MaxRetriesBound, s \in {defaultRetryPolicy.retryOnStatus, {503}},
        e \in BOOLEAN, i \in {defaultRetryPolicy.idempotentMethods, {}},
        f \in {NoOverride, PutRetry503, PostRetry500}}
Policies == DelayPolicies \cup ClassPolicies

\* fetchWithRetry(url, init, policy) is entered: lines 45-66
BeginCall(m, policy) ==
    /\ initMethod' = m
    /\ cfg' = WithDefaults(policy)
    /\ hpc' = "loop"
    /\ attempt' = 0
    /\ sent' = 0
    /\ sleeps' = 0
    /\ delay' = 0
    /\ lastExp' = 0
    /\ got' = Nothing
    /\ classified' = "none"
    /\ run' = Nothing
    /\ result' = NotSettled

\* the call is over and its result taken: nothing of it is kept
EndCall ==
    /\ initMethod' = "undefined"
    /\ cfg' = defaultRetryPolicy
    /\ hpc' = "none"
    /\ attempt' = 0
    /\ sent' = 0
    /\ sleeps' = 0
    /\ delay' = 0
    /\ lastExp' = 0
    /\ got' = Nothing
    /\ classified' = "none"
    /\ run' = Nothing
    /\ result' = NotSettled

ToUpperCaseIdentity(s) == s

ToUpperCase(s) ==
    CASE s = "get" -> "GET"
      [] s = "put" -> "PUT"
      [] s = "post" -> "POST"
      [] OTHER -> s

\* const method = (init.method ?? 'GET').toUpperCase()
method == IF initMethod = "undefined" THEN "GET" ELSE ToUpperCase(initMethod)

mayRetryStatusAnyOverride(status) ==
    /\ status \in cfg.retryOnStatus
    /\ method \in cfg.idempotentMethods \/ method \in DOMAIN cfg.forceRetryMethods

mayRetryStatus(status) ==
    IF status \in cfg.retryOnStatus
    THEN IF method \in cfg.idempotentMethods
         THEN TRUE
         ELSE /\ method \in DOMAIN cfg.forceRetryMethods
              /\ status \in cfg.forceRetryMethods[method]
    ELSE FALSE

Min(a, b) == IF a <= b THEN a ELSE b
Max(a, b) == IF a >= b THEN a ELSE b

\* Math.round(num / den) for den > 0: the integer nearest, halves upwards
Round(num, den) == (2 * num + den) \div (2 * den)

expUncapped(a) == cfg.baseDelayMs * 2^a

\* const exp = Math.min(cfg.maxDelayMs, cfg.baseDelayMs * Math.pow(2, attempt))
exp(a) == Min(cfg.maxDelayMs, cfg.baseDelayMs * 2^a)

backoffNoFloor(a, rnd) ==
    Round(exp(a) * 100 * RandomDenominator
              + exp(a) * cfg.jitterPct * (2 * rnd - RandomDenominator),
          100 * RandomDenominator)

\* jitter = exp * jitterRatio * (Math.random() * 2 - 1), Math.random() being
\* rnd / RandomDenominator; the result is Math.max(0, Math.round(exp + jitter))
backoff(a, rnd) ==
    Max(0, Round(exp(a) * 100 * RandomDenominator
                     + exp(a) * cfg.jitterPct * (2 * rnd - RandomDenominator),
                 100 * RandomDenominator))

Extend(r, x) == IF r = Nothing THEN x ELSE IF r = x THEN r ELSE Mixed

\* await sleep(backoff(attempt))
Sleep ==
    /\ \E rnd \in RandomSamples : delay' = backoff(attempt, rnd)
    /\ lastExp' = exp(attempt)
    /\ sleeps' = sleeps + 1
    /\ hpc' = "sleeping"
    /\ UNCHANGED <<attempt, sent, result>>

Return(x) ==
    /\ hpc' = "returned"
    /\ result' = [how |-> "returned", what |-> x]
    /\ UNCHANGED <<attempt, sent, sleeps, delay, lastExp>>

Throw(x) ==
    /\ hpc' = "thrown"
    /\ result' = [how |-> "thrown", what |-> x]
    /\ UNCHANGED <<attempt, sent, sleeps, delay, lastExp>>

\* a caller invokes fetchWithRetry on its own
Call ==
    /\ hpc = "none"
    /\ \E m \in RawMethods, policy \in Policies : BeginCall(m, policy)

\* top of the loop: the attempt's AbortController and timer are set up and the
\* request is handed to _fetch (lines 68-73); with maxRetries >= 0 the loop
\* never ends by its condition, so line 107 is not reached
SendAttempt ==
    /\ hpc = "loop"
    /\ attempt <= cfg.maxRetries
    /\ hpc' = "fetching"
    /\ sent' = sent + 1
    /\ got' = Nothing
    /\ classified' = "none"
    /\ UNCHANGED <<initMethod, cfg, attempt, sleeps, delay, lastExp, run, result>>

retriesLeftAlways == TRUE

\* if (attempt < cfg.maxRetries)
retriesLeft == attempt < cfg.maxRetries

\* _fetch resolves with a response (lines 73-88)
FetchResponds ==
    /\ hpc = "fetching"
    /\ \E status \in HttpStatuses :
          /\ got' = Response(status)
          /\ run' = Extend(run, Response(status))
          /\ classified' = IF mayRetryStatus(status) THEN "retryable" ELSE "final"
          /\ IF ~mayRetryStatus(status)
             THEN Return(Response(status))
             ELSE IF retriesLeft THEN Sleep ELSE Return(Response(status))
    /\ UNCHANGED <<initMethod, cfg>>

isAbort(err) == err = "AbortError"

isNetErrIgnoresPolicy(err) == ~isAbort(err)

\* const isNetErr = cfg.retryOnNetworkErrors && !isAbort
isNetErr(err) == cfg.retryOnNetworkErrors /\ ~isAbort(err)

\* _fetch rejects with err: the catch branch (lines 89-103)
Catch(err) ==
    /\ got' = Failure(err)
    /\ run' = Extend(run, Failure(err))
    /\ IF ~isNetErr(err) \/ attempt >= cfg.maxRetries
       THEN Throw(Failure(err))
       ELSE Sleep
    /\ UNCHANGED <<initMethod, cfg, classified>>

\* the connection fails: _fetch rejects with an error not named AbortError
FetchFails ==
    /\ hpc = "fetching"
    /\ Catch("network")

\* the attempt's timer fires (line 70): controller.abort() makes _fetch reject
\* with an AbortError
AttemptTimesOut ==
    /\ hpc = "fetching"
    /\ Catch("AbortError")

\* a variant of the loop without its attempt++
WakeSameAttempt ==
    /\ hpc = "sleeping"
    /\ hpc' = "loop"
    /\ delay' = 0
    /\ UNCHANGED <<initMethod, cfg, attempt, sent, sleeps, lastExp, got, classified, run, result>>

\* the sleep is over: continue with attempt++
Wake ==
    /\ hpc = "sleeping"
    /\ hpc' = "loop"
    /\ attempt' = attempt + 1
    /\ delay' = 0
    /\ UNCHANGED <<initMethod, cfg, sent, sleeps, lastExp, got, classified, run, result>>

\* ---- SwiftAdapter (src/src/SwiftAdapter.ts) ---------------------------------
\* the object operation runs as caller OpCaller of the authenticator the
\* adapter constructs (clockSkewSec: 60)
OpCaller == 1
AuthRejected == {401, 403}

\* options.headers a caller may give createFile
ExtraHeaderChoices ==
    { << >>,
      <<[name |-> "X-Object-Meta-Owner", value |-> "caller"]>>,
      <<[name |-> "X-Auth-Token", value |-> "caller"]>>,
      <<[name |-> "x-auth-token", value |-> "caller"]>> }

\* the operations a caller may invoke, with their options
Operation(kind, conditional, extra) ==
    [kind |-> kind, conditional |-> conditional, extra |-> extra,
     etagHex |-> "none", ignoreNotFound |-> "undefined"]
Operations ==
    {Operation("getFile", "none", << >>), Operation("createFile", "true", << >>)}
        \cup {Operation("createFile", "none", e) : e \in ExtraHeaderChoices}

\* the operations with the options that bear on their headers and outcomes
\* (contentType is left out: no operation here is given one)
PreconditionChoices == {"none", "true", "tag-1"}
EtagHexChoices == {"none", "hex-1"}
CreateOptions ==
    {[conditional |-> c, etagHex |-> e, extra |-> << >>] :
        c \in PreconditionChoices, e \in EtagHexChoices}
      \cup {[conditional |-> "none", etagHex |-> "none",
              extra |-> <<[name |-> n, value |-> "caller"]>>] :
                n \in {"If-Match", "ETag"}}
      \cup {[conditional |-> "true", etagHex |-> "hex-1",
              extra |-> <<[name |-> n, value |-> "caller"]>>] :
                n \in {"If-Match", "ETag"}}
AllOperations ==
    {Operation("getFile", "none", << >>), Operation("headFile", "none", << >>)}
      \cup {[Operation("deleteFile", c, << >>) EXCEPT !.ignoreNotFound = i] :
              c \in {"none", "tag-1"}, i \in {"undefined", "true", "false"}}
      \cup {[Operation(k, o.conditional, o.extra) EXCEPT !.etagHex = o.etagHex] :
              k \in {"createFile", "createFileStream"}, o \in CreateOptions}

\* a JavaScript object used as a header map: its own keys in insertion order,
\* told apart by their exact spelling.  obj[name] = value
SetHeader(obj, name, value) ==
    IF \E i \in DOMAIN obj : obj[i].name = name
    THEN [i \in DOMAIN obj |->
             IF obj[i].name = name THEN [name |-> name, value |-> value] ELSE obj[i]]
    ELSE Append(obj, [name |-> name, value |-> value])

\* {...obj, ...more}
RECURSIVE Spread(_, _)
Spread(obj, more) ==
    IF more = << >> THEN obj
    ELSE Spread(SetHeader(obj, Head(more).name, Head(more).value), Tail(more))

\* createFile, lines 137-148: ETag, the caller's headers, the precondition
\* what the create operations are given to store, and its MD5 in hex
Payload == "payload"
computeMD5Hex(data) == "md5(" \o data \o ")"

\* if (options.conditional === true) ... else if (typeof ... === 'string') ...
withPrecondition(headers, conditional) ==
    IF conditional = "true" THEN SetHeader(headers, "If-None-Match", "*")
    ELSE IF conditional # "none" THEN SetHeader(headers, "If-Match", conditional)
         ELSE headers

createFileHeaders(o) ==
    LET etag == IF o.etagHex # "none" THEN o.etagHex ELSE computeMD5Hex(Payload)
    IN withPrecondition(Spread(<<[name |-> "ETag", value |-> etag]>>, o.extra),
                        o.conditional)

\* createFileStream, lines 310-318: the caller's headers, the explicit ETag,
\* the precondition
createFileStreamHeaders(o) ==
    LET headers == Spread(<< >>, o.extra)
    IN withPrecondition(IF o.etagHex # "none"
                        THEN SetHeader(headers, "ETag", o.etagHex) ELSE headers,
                        o.conditional)

\* deleteFile, lines 190-191
deleteFileHeaders(o) ==
    IF o.conditional # "none" THEN SetHeader(<< >>, "If-Match", o.conditional) ELSE << >>

\* init.headers ?? {} of the operation's request
initHeaders(o) ==
    CASE o.kind = "createFile" -> createFileHeaders(o)
      [] o.kind = "createFileStream" -> createFileStreamHeaders(o)
      [] o.kind = "deleteFile" -> deleteFileHeaders(o)
      [] OTHER -> << >>

\* headers: {...(init.headers ?? {}), 'X-Auth-Token': token}
withAuth(o, token) ==
    SetHeader(Spread(<< >>, initHeaders(o)), "X-Auth-Token", ToString(token))

\* fetch builds the request's header list from the header map: names are
\* case-insensitive, and the values given under spellings of one name are
\* all sent, in the order of the keys
Lower(name) ==
    CASE name = "X-Auth-Token" -> "x-auth-token"
      [] name = "ETag" -> "etag"
      [] name = "If-None-Match" -> "if-none-match"
      [] name = "If-Match" -> "if-match"
      [] name = "X-Object-Meta-Owner" -> "x-object-meta-owner"
      [] OTHER -> name
RECURSIVE HeaderOnWire(_, _)
HeaderOnWire(obj, lname) ==
    IF obj = << >> THEN << >>
    ELSE (IF Lower(Head(obj).name) = lname THEN <<Head(obj).value>> ELSE << >>)
             \o HeaderOnWire(Tail(obj), lname)

opMethod(o) ==
    CASE o.kind \in {"createFile", "createFileStream"} -> "PUT"
      [] o.kind = "deleteFile" -> "DELETE"
      [] o.kind = "headFile" -> "HEAD"
      [] OTHER -> "GET"

\* a variant that lets every upload be retried on 503
opPolicyEveryPut(o) ==
    [forceRetryMethods |-> IF o.kind \in {"createFile", "createFileStream"}
                           THEN PutRetry503 ELSE NoOverride]

\* const policy = {forceRetryMethods: opts?.allowPutRetry503 ? {PUT: [503]} : {}}
\* (createFile passes allowPutRetry503: true, no other operation does)
opPolicy(o) ==
    [forceRetryMethods |-> IF o.kind = "createFile" THEN PutRetry503 ELSE NoOverride]

\* what the operation makes of the terminal response
Success(res) == [kind |-> "success", error |-> "none", status |-> res.status]
\* httpError(message, res, ctx): an Error with that message and http.status
httpError(message, res) == [kind |-> "failure", error |-> message, status |-> res.status]
\* a rejection of getToken() or fetchWithRetry() passes through the operation
Rejected(name) == [kind |-> "failure", error |-> name, status |-> 0]

createFileOutcome412Generic(res) ==
    IF res.status = 201 THEN Success(res)
    ELSE IF res.status = 422
         THEN httpError("Swift PUT failed: ETag/content MD5 mismatch (422)", res)
         ELSE httpError("Swift PUT failed: <status> <statusText>", res)

createFileOutcome(res) ==
    IF res.status = 201 THEN Success(res)
    ELSE IF res.status = 412
         THEN httpError("Swift PUT precondition failed (412)", res)
         ELSE IF res.status = 422
              THEN httpError("Swift PUT failed: ETag/content MD5 mismatch (422)", res)
              ELSE httpError("Swift PUT failed: <status> <statusText>", res)

getFileOutcome(res) ==
    IF res.status # 200
    THEN httpError("Swift GET failed: <status> <statusText>", res)
    ELSE Success(res)

headFileOutcome(res) ==
    IF res.status # 200
    THEN httpError("Swift HEAD failed: <status> <statusText>", res)
    ELSE Success(res)

createFileStreamOutcomeAny2xx(res) ==
    IF res.status \in {200, 201, 204} THEN Success(res)
    ELSE httpError("Swift PUT stream failed <status>", res)

createFileStreamOutcome(res) ==
    IF res.status = 201 THEN Success(res)
    ELSE httpError("Swift PUT stream failed <status>", res)

\* options.ignoreNotFound ?? true
ignoreNotFoundDefaultFalse(o) == o.ignoreNotFound = "true"

ignoreNotFound(o) == o.ignoreNotFound # "false"

deleteFileOutcome(o, res) ==
    IF res.status = 204 THEN Success(res)
    ELSE IF ignoreNotFound(o) /\ res.status = 404 THEN Success(res)
         ELSE IF res.status = 412
              THEN httpError("Swift DELETE precondition failed (412 If-Match)", res)
              ELSE httpError("Swift DELETE failed: <status> <statusText>", res)

opOutcome(o, res) ==
    CASE o.kind = "createFile" -> createFileOutcome(res)
      [] o.kind = "createFileStream" -> createFileStreamOutcome(res)
      [] o.kind = "deleteFile" -> deleteFileOutcome(o, res)
      [] o.kind = "headFile" -> headFileOutcome(res)
      [] OTHER -> getFileOutcome(res)

\* what the operation keeps of a finished fetchWithRetry call: its result,
\* whether every attempt was answered alike, and in that case the number of
\* requests it sent
Exchange ==
    [sent |-> IF run = result.what THEN sent ELSE 0,
     result |-> result,
     uniform |-> run = result.what]

\* the call enters authFetchWithRetry and calls getToken() (line 339); a
\* cached token resolves it without an exchange
LogCall(name, token) == [call |-> name, token |-> token]

SendWith(o, log, token) ==
    /\ op' = [op EXCEPT !.pc = IF op.pc \in {"idle", "done", "token1"}
                                THEN "exchange1" ELSE "exchange2",
                        !.kind = o.kind, !.conditional = o.conditional,
                        !.extra = o.extra, !.etagHex = o.etagHex,
                        !.ignoreNotFound = o.ignoreNotFound,
                        !.headers = withAuth(o, token),
                        !.tokens = IF op.pc \in {"idle", "done"} THEN {token}
                                   ELSE op.tokens \cup {token},
                        !.log = Append(log, LogCall("fetchWithRetry", token)),
                        !.fromCache = IF op.pc \in {"idle", "done"} THEN TRUE ELSE op.fromCache,
                        !.posts0 = IF op.pc \in {"idle", "done"} THEN nPosts ELSE op.posts0,
                        !.first = IF op.pc \in {"idle", "done"} THEN NoExchange ELSE op.first,
                        !.second = NoExchange,
                        !.outcome = NoOutcome]
    /\ BeginCall(opMethod(o), opPolicy(o))

OpStart(o) ==
    /\ GetToken(OpCaller)
    /\ IF isTokenValid
          THEN SendWith(o, <<LogCall("getToken", current.token)>>, current.token)
          ELSE /\ op' = [IdleOp EXCEPT !.pc = "token1", !.kind = o.kind,
                                       !.conditional = o.conditional, !.extra = o.extra,
                                       !.etagHex = o.etagHex,
                                       !.ignoreNotFound = o.ignoreNotFound,
                                       !.log = <<LogCall("getToken", 0)>>,
                                       !.posts0 = nPosts]
               /\ UNCHANGED httpVars

\* a caller invokes an operation when none is in progress
OpBegin ==
    /\ op.pc \in {"idle", "done"}
    /\ \E o \in Operations : OpStart(o)

\* the one operation of a run, any of them with any of its options
OpBeginOnce ==
    /\ op.pc = "idle"
    /\ \E o \in AllOperations : OpStart(o)

\* the getToken() the operation awaits settles: with a token, the request is
\* built and handed to fetchWithRetry; with an error, the operation rejects
OpTokenSettles(k) ==
    /\ op.pc \in {"token1", "token2"}
    /\ callers[OpCaller].pc = "waiting"
    /\ callers[OpCaller].op = k
    /\ FinallyCallback(k)
    /\ IF ops[k].failure = "none"
       THEN SendWith(op, [op.log EXCEPT ![Len(op.log)].token = k], k)
       ELSE /\ op' = [op EXCEPT !.pc = "done", !.outcome = Rejected(ops[k].failure)]
            /\ UNCHANGED httpVars

\* this.authenticator.invalidate() and, in the same turn, the call of
\* getToken() (lines 362-363): the token is dropped, so getToken() refreshes
InvalidateThenGetToken(c) ==
    /\ callers[c].pc = "idle"
    /\ current' = NoToken
    /\ invFlip' = ~invFlip
    /\ invPending' = "no"
    /\ IF HasInflight
       THEN /\ state' = IF state = "AUTHENTICATED" THEN "UNAUTHENTICATED" ELSE state
            /\ callers' = [callers EXCEPT ![c] = [pc |-> "waiting", op |-> inflight, after |-> "busy"]]
            /\ UNCHANGED <<inflight, ops>>
       ELSE /\ nPosts < MaxPosts
            /\ state' = "AUTHENTICATING"
            /\ ops' = Append(ops, NewOp)
            /\ inflight' = nPosts + 1
            /\ callers' = [callers EXCEPT ![c] = [pc |-> "waiting", op |-> nPosts + 1, after |-> "idle"]]
    /\ UNCHANGED <<now, clockSkewMs, last>>

isAuthRejectionOnly401(status) == status = 401

\* if (res.status === 401 || res.status === 403)
isAuthRejection(status) == status \in AuthRejected

\* a variant that re-authenticates after every rejection
OpReauthenticatesAgain ==
    /\ op.pc \in {"exchange1", "exchange2"}
    /\ hpc = "returned"
    /\ isAuthRejection(result.what.status)
    /\ InvalidateThenGetToken(OpCaller)
    /\ op' = [op EXCEPT !.pc = "token2", !.first = Exchange,
                        !.log = op.log \o <<LogCall("invalidate", 0), LogCall("getToken", 0)>>]
    /\ EndCall

\* the first fetchWithRetry returns 401 or 403 (lines 360-363)
OpReauthenticates ==
    /\ op.pc = "exchange1"
    /\ hpc = "returned"
    /\ isAuthRejection(result.what.status)
    /\ InvalidateThenGetToken(OpCaller)
    /\ op' = [op EXCEPT !.pc = "token2", !.first = Exchange,
                        !.log = op.log \o <<LogCall("invalidate", 0), LogCall("getToken", 0)>>]
    /\ EndCall

\* authFetchWithRetry returns the response (line 380) and the operation
\* returns or throws on its status
OpCompletes ==
    /\ op.pc \in {"exchange1", "exchange2"}
    /\ hpc = "returned"
    /\ op.pc = "exchange1" => ~isAuthRejection(result.what.status)
    /\ op' = [op EXCEPT !.pc = "done",
                        !.first = IF op.pc = "exchange1" THEN Exchange ELSE op.first,
                        !.second = IF op.pc = "exchange2" THEN Exchange ELSE op.second,
                        !.outcome = opOutcome(op, result.what)]
    /\ EndCall
    /\ UNCHANGED vars

\* fetchWithRetry throws: the operation rejects with that error
OpTransportFails ==
    /\ op.pc \in {"exchange1", "exchange2"}
    /\ hpc = "thrown"
    /\ op' = [op EXCEPT !.pc = "done",
                        !.first = IF op.pc = "exchange1" THEN Exchange ELSE op.first,
                        !.second = IF op.pc = "exchange2" THEN Exchange ELSE op.second,
                        !.outcome = Rejected(result.what.kind)]
    /\ EndCall
    /\ UNCHANGED vars

\* ---- operations side by side (authFetchWithRetry, lines 333-381) -----------
\* each caller runs one operation; of its fetchWithRetry calls only the
\* response they return is kept.  The adapter has served operations before:
\* it holds a token of an earlier exchange, written PriorToken
PriorToken == 0 - 1

\* const token = await this.authenticator.getToken() (line 339), and with a
\* cached token the first fetchWithRetry
ConcBegin(c) ==
    /\ cops[c].pc = "idle"
    /\ GetToken(c)
    /\ cops' = [cops EXCEPT ![c] =
                   IF isTokenValid
                   THEN [@ EXCEPT !.pc = "sent", !.sent = current.token]
                   ELSE [@ EXCEPT !.pc = "token"]]

\* the refresh some operations wait on settles: each of them goes on with the
\* token (first or re-sent request) or fails with the error
ConcSettles(k) ==
    /\ FinallyCallback(k)
    /\ cops' = [c \in Callers |->
                   IF callers[c].pc = "waiting" /\ callers[c].op = k
                   THEN IF ops[k].failure # "none" THEN [cops[c] EXCEPT !.pc = "failed"]
                        ELSE IF cops[c].pc = "token"
                             THEN [cops[c] EXCEPT !.pc = "sent", !.sent = k]
                             ELSE [cops[c] EXCEPT !.pc = "resent", !.fresh = k]
                   ELSE cops[c]]

\* a variant that keeps a cached token newer than the rejected one
ConcRejectedKeepsNewer(c) ==
    /\ cops[c].pc = "sent"
    /\ IF isTokenValid /\ current.token # cops[c].sent
       THEN /\ cops' = [cops EXCEPT ![c] = [@ EXCEPT !.pc = "resent", !.rejected = TRUE,
                                                    !.at = nPosts, !.fresh = current.token]]
            /\ UNCHANGED vars
       ELSE /\ InvalidateThenGetToken(c)
            /\ cops' = [cops EXCEPT ![c] = [@ EXCEPT !.pc = "reauth", !.rejected = TRUE,
                                                    !.at = nPosts]]

\* the first fetchWithRetry returns 401 or 403: invalidate(), getToken()
\* (lines 360-363)
ConcRejected(c) ==
    /\ cops[c].pc = "sent"
    /\ InvalidateThenGetToken(c)
    /\ cops' = [cops EXCEPT ![c] = [@ EXCEPT !.pc = "reauth", !.rejected = TRUE,
                                             !.at = nPosts]]

\* the first fetchWithRetry returns another response, or throws: the operation
\* is over
ConcCompletes(c) ==
    /\ cops[c].pc = "sent"
    /\ cops' = [cops EXCEPT ![c] = [@ EXCEPT !.pc = "done"]]
    /\ UNCHANGED vars

\* ---- one operation among other callers of the authenticator ---------------
\* another caller stands for the other operations: of them only getToken()
\* and, on a rejection, invalidate() and getToken() are kept
OtherCallers == {OpCaller + 1}

\* a download and a buffered upload, answered by the store with success, with
\* an authentication rejection or with a transient failure
CountedOperations == {Operation("getFile", "none", << >>), Operation("createFile", "none", << >>)}
CountedStatuses == {200, 401, 503}

\* the operation is invoked; its getToken() starts an exchange unless a token
\* is cached or a refresh is in flight
CountedBegin ==
    /\ op.pc = "idle"
    /\ \E o \in CountedOperations : OpStart(o)
    /\ tally' = [tally EXCEPT !.started = IF isTokenValid \/ HasInflight THEN 0 ELSE 1]
    /\ UNCHANGED <<loc, cops>>

CountedReauthenticates ==
    /\ OpReauthenticates
    /\ tally' = [tally EXCEPT !.started = IF HasInflight THEN @ ELSE @ + 1]
    /\ UNCHANGED <<loc, cops>>

CountedSend ==
    /\ SendAttempt
    /\ tally' = [tally EXCEPT !.requests = @ + 1]
    /\ UNCHANGED <<vars, op, loc, cops>>

\* another operation calls getToken()
OtherGetToken(c) == c \in OtherCallers /\ GetToken(c)

\* another operation is rejected with 401/403
OtherRejected(c) == c \in OtherCallers /\ InvalidateThenGetToken(c)

\* a refresh the operation does not wait on settles
OtherSettles(k) ==
    /\ ~(callers[OpCaller].pc = "waiting" /\ callers[OpCaller].op = k)
    /\ FinallyCallback(k)

\* ---- getFileLocation (lines 292-298) -------------------------------------
\* bound of the filenames: their length in characters
MaxNameLen == 2

\* a filename is a sequence of characters: a letter, an unreserved mark, and
\* characters encodeURIComponent escapes (the last one takes two UTF-8 bytes)
NameChars == {"a", ".", "/", " ", "%", "é"}
RECURSIVE NamesOfLength(_)
NamesOfLength(n) ==
    IF n = 0 THEN {<< >>}
    ELSE {Append(name, c) : name \in NamesOfLength(n - 1), c \in NameChars}
Filenames == UNION {NamesOfLength(n) : n \in 0..MaxNameLen}
FileConfigs ==
    {[mount |-> "http://parse/1", applicationId |-> "app"],
     [mount |-> "", applicationId |-> "a/b"]}
DirectAccessOptions == {"undefined", "true", "false"}

\* encodeURIComponent: letters and the marks - _ . ! ~ * ' ( ) stay, every
\* other character becomes %XX for each byte of its UTF-8 encoding
encodeChar(c) ==
    CASE c = "/" -> "%2F"
      [] c = " " -> "%20"
      [] c = "%" -> "%25"
      [] c = "é" -> "%C3%A9"
      [] OTHER -> c
RECURSIVE encodeURIComponent(_)
encodeURIComponent(name) ==
    IF name = << >> THEN ""
    ELSE encodeChar(Head(name)) \o encodeURIComponent(Tail(name))
RECURSIVE Raw(_)
Raw(name) == IF name = << >> THEN "" ELSE Head(name) \o Raw(Tail(name))

\* this.baseUrl = `${options.baseUrl}/AUTH_${options.projectId}/${options.container}`
baseUrl == "https://swift/v1" \o "/AUTH_" \o "project" \o "/" \o "container"
\* this.directAccess = options.directAccess ?? false
directAccess(option) == option = "true"

getFileLocationRawName(l) ==
    IF directAccess(l.directAccess)
    THEN baseUrl \o "/" \o Raw(l.filename)
    ELSE l.mount \o "/files/" \o l.applicationId \o "/" \o Raw(l.filename)

getFileLocation(l) ==
    LET encoded == encodeURIComponent(l.filename)
    IN IF directAccess(l.directAccess)
       THEN baseUrl \o "/" \o encoded
       ELSE l.mount \o "/files/" \o l.applicationId \o "/" \o encoded

\* the call: it returns, and nothing else happens
GetFileLocation ==
    /\ loc.result = "none"
    /\ loc' = [loc EXCEPT !.result = getFileLocation(loc)]
    /\ UNCHANGED <<vars, httpVars, op, cops, tally>>

\* ---- specifications ----------------------------------------------------------
\* the token manager on its own: no object operation, no store request
Next ==
    \/ (\E c \in Callers : GetToken(c)) /\ UNCHANGED <<httpVars, opVars>>
    \/ Invalidate /\ UNCHANGED <<httpVars, opVars>>
    \/ Tick /\ UNCHANGED <<httpVars, opVars>>
    \/ (\E k \in 1..MaxPosts : AuthFetchFails(k)) /\ UNCHANGED <<httpVars, opVars>>
    \/ (\E k \in 1..MaxPosts : AuthFetchResponds(k)) /\ UNCHANGED <<httpVars, opVars>>
    \/ (\E k \in 1..MaxPosts : AuthErrorBodyRead(k)) /\ UNCHANGED <<httpVars, opVars>>
    \/ (\E k \in 1..MaxPosts : AuthJsonRead(k)) /\ UNCHANGED <<httpVars, opVars>>
    \/ (\E k \in 1..MaxPosts : ThenCallback(k)) /\ UNCHANGED <<httpVars, opVars>>
    \/ (\E k \in 1..MaxPosts : CatchCallback(k)) /\ UNCHANGED <<httpVars, opVars>>
    \/ (\E k \in 1..MaxPosts : FinallyCallback(k)) /\ UNCHANGED <<httpVars, opVars>>

Spec == Init /\ [][Next]_vars

\* the token manager when every exchange settles (the POST answers or fails,
\* a body being read ends) and the promise callbacks queued by a settlement
\* are run by the event loop; the clock stands still, a token whose adjusted
\* expiry is not in the future being the expired one
ExchangeSettles ==
    /\ \E k \in 1..MaxPosts :
          \/ AuthFetchFails(k)
          \/ AuthFetchResponds(k)
          \/ AuthErrorBodyRead(k)
          \/ AuthJsonRead(k)
    /\ UNCHANGED <<httpVars, opVars>>
CallbacksRun ==
    /\ \E k \in 1..MaxPosts :
          \/ ThenCallback(k)
          \/ CatchCallback(k)
          \/ FinallyCallback(k)
    /\ UNCHANGED <<httpVars, opVars>>
NextLive ==
    \/ (\E c \in Callers : GetToken(c)) /\ UNCHANGED <<httpVars, opVars>>
    \/ Invalidate /\ UNCHANGED <<httpVars, opVars>>
    \/ (\E k \in 1..MaxPosts : AuthFetchFails(k)) /\ UNCHANGED <<httpVars, opVars>>
    \/ (\E k \in 1..MaxPosts : AuthFetchResponds(k)) /\ UNCHANGED <<httpVars, opVars>>
    \/ (\E k \in 1..MaxPosts : AuthErrorBodyRead(k)) /\ UNCHANGED <<httpVars, opVars>>
    \/ (\E k \in 1..MaxPosts : AuthJsonRead(k)) /\ UNCHANGED <<httpVars, opVars>>
    \/ (\E k \in 1..MaxPosts : ThenCallback(k)) /\ UNCHANGED <<httpVars, opVars>>
    \/ (\E k \in 1..MaxPosts : CatchCallback(k)) /\ UNCHANGED <<httpVars, opVars>>
    \/ (\E k \in 1..MaxPosts : FinallyCallback(k)) /\ UNCHANGED <<httpVars, opVars>>

InitLive == Init /\ clockSkewMs = DefaultClockSkewMs

SpecLive ==
    /\ InitLive
    /\ [][NextLive]_vars
    /\ WF_vars(ExchangeSettles)
    /\ WF_vars(CallbacksRun)

\* one fetchWithRetry call on its own
NextHttp ==
    \/ Call /\ UNCHANGED <<vars, opVars>>
    \/ SendAttempt /\ UNCHANGED <<vars, opVars>>
    \/ FetchResponds /\ UNCHANGED <<vars, opVars>>
    \/ FetchFails /\ UNCHANGED <<vars, opVars>>
    \/ AttemptTimesOut /\ UNCHANGED <<vars, opVars>>
    \/ Wake /\ UNCHANGED <<vars, opVars>>

InitHttp == Init /\ clockSkewMs = DefaultClockSkewMs

SpecHttp == InitHttp /\ [][NextHttp]_allVars

\* the same call when the event loop keeps running it: the loop body is run
\* when it is its turn, every attempt responds, fails or is aborted by its
\* timer (line 70), and the timer of every sleep fires
LoopRuns == SendAttempt /\ UNCHANGED <<vars, opVars>>
AttemptEnds == (FetchResponds \/ FetchFails \/ AttemptTimesOut) /\ UNCHANGED <<vars, opVars>>
SleepEnds == Wake /\ UNCHANGED <<vars, opVars>>
SpecHttpLive ==
    /\ InitHttp
    /\ [][NextHttp]_allVars
    /\ WF_allVars(LoopRuns)
    /\ WF_allVars(AttemptEnds)
    /\ WF_allVars(SleepEnds)

\* object operations of one adapter, one after the other, nothing else using
\* its authenticator.  The clock is read by getToken() and refreshToken()
\* only, so it is let advance while no fetchWithRetry call is under way.
NextAdapter ==
    \/ OpBegin /\ UNCHANGED callVars
    \/ (\E k \in 1..MaxPosts : OpTokenSettles(k)) /\ UNCHANGED callVars
    \/ OpReauthenticates /\ UNCHANGED callVars
    \/ OpCompletes /\ UNCHANGED callVars
    \/ OpTransportFails /\ UNCHANGED callVars
    \/ SendAttempt /\ UNCHANGED <<vars, opVars>>
    \/ FetchResponds /\ UNCHANGED <<vars, opVars>>
    \/ FetchFails /\ UNCHANGED <<vars, opVars>>
    \/ AttemptTimesOut /\ UNCHANGED <<vars, opVars>>
    \/ Wake /\ UNCHANGED <<vars, opVars>>
    \/ (hpc = "none" /\ Tick) /\ UNCHANGED <<httpVars, opVars>>
    \/ (\E k \in 1..MaxPosts : AuthFetchFails(k)) /\ UNCHANGED <<httpVars, opVars>>
    \/ (\E k \in 1..MaxPosts : AuthFetchResponds(k)) /\ UNCHANGED <<httpVars, opVars>>
    \/ (\E k \in 1..MaxPosts : AuthErrorBodyRead(k)) /\ UNCHANGED <<httpVars, opVars>>
    \/ (\E k \in 1..MaxPosts : AuthJsonRead(k)) /\ UNCHANGED <<httpVars, opVars>>
    \/ (\E k \in 1..MaxPosts : ThenCallback(k)) /\ UNCHANGED <<httpVars, opVars>>
    \/ (\E k \in 1..MaxPosts : CatchCallback(k)) /\ UNCHANGED <<httpVars, opVars>>

\* new SwiftAdapter(options): the authenticator is built with clockSkewSec: 60
InitAdapter == Init /\ clockSkewMs = DefaultClockSkewMs

SpecAdapter == InitAdapter /\ [][NextAdapter]_allVars

\* one operation, any of the adapter's, from a fresh adapter
NextOps ==
    \/ OpBeginOnce /\ UNCHANGED callVars
    \/ (\E k \in 1..MaxPosts : OpTokenSettles(k)) /\ UNCHANGED callVars
    \/ OpReauthenticates /\ UNCHANGED callVars
    \/ OpCompletes /\ UNCHANGED callVars
    \/ OpTransportFails /\ UNCHANGED callVars
    \/ SendAttempt /\ UNCHANGED <<vars, opVars>>
    \/ FetchResponds /\ UNCHANGED <<vars, opVars>>
    \/ FetchFails /\ UNCHANGED <<vars, opVars>>
    \/ AttemptTimesOut /\ UNCHANGED <<vars, opVars>>
    \/ Wake /\ UNCHANGED <<vars, opVars>>
    \/ (hpc = "none" /\ Tick) /\ UNCHANGED <<httpVars, opVars>>
    \/ (\E k \in 1..MaxPosts : AuthFetchFails(k)) /\ UNCHANGED <<httpVars, opVars>>
    \/ (\E k \in 1..MaxPosts : AuthFetchResponds(k)) /\ UNCHANGED <<httpVars, opVars>>
    \/ (\E k \in 1..MaxPosts : AuthErrorBodyRead(k)) /\ UNCHANGED <<httpVars, opVars>>
    \/ (\E k \in 1..MaxPosts : AuthJsonRead(k)) /\ UNCHANGED <<httpVars, opVars>>
    \/ (\E k \in 1..MaxPosts : ThenCallback(k)) /\ UNCHANGED <<httpVars, opVars>>
    \/ (\E k \in 1..MaxPosts : CatchCallback(k)) /\ UNCHANGED <<httpVars, opVars>>

\* new SwiftAdapter(options): the authenticator is built with clockSkewSec: 60
InitOps == Init /\ clockSkewMs = DefaultClockSkewMs

SpecOps == InitOps /\ [][NextOps]_allVars

\* getFileLocation called on an adapter built with either directAccess option
NextLocation == GetFileLocation

InitLocation ==
    /\ NewAuthenticator
    /\ clockSkewMs = DefaultClockSkewMs
    /\ NoCall
    /\ NoOperation
    /\ NoConcurrentOps
    /\ NothingCounted
    /\ loc \in {[directAccess |-> d, mount |-> c.mount, applicationId |-> c.applicationId,
                 filename |-> f, result |-> "none"] :
                   d \in DirectAccessOptions, c \in FileConfigs, f \in Filenames}

SpecLocation == InitLocation /\ [][NextLocation]_allVars

\* one operation per caller, side by side, on an adapter holding a token
NextConcurrent ==
    \/ (\E c \in Callers : ConcBegin(c)) /\ UNCHANGED <<httpVars, op, loc, tally>>
    \/ (\E k \in 1..MaxPosts : ConcSettles(k)) /\ UNCHANGED <<httpVars, op, loc, tally>>
    \/ (\E c \in Callers : ConcRejected(c)) /\ UNCHANGED <<httpVars, op, loc, tally>>
    \/ (\E c \in Callers : ConcCompletes(c)) /\ UNCHANGED <<httpVars, op, loc, tally>>
    \/ Tick /\ UNCHANGED <<httpVars, opVars>>
    \/ (\E k \in 1..MaxPosts : AuthFetchFails(k)) /\ UNCHANGED <<httpVars, opVars>>
    \/ (\E k \in 1..MaxPosts : AuthFetchResponds(k)) /\ UNCHANGED <<httpVars, opVars>>
    \/ (\E k \in 1..MaxPosts : AuthErrorBodyRead(k)) /\ UNCHANGED <<httpVars, opVars>>
    \/ (\E k \in 1..MaxPosts : AuthJsonRead(k)) /\ UNCHANGED <<httpVars, opVars>>
    \/ (\E k \in 1..MaxPosts : ThenCallback(k)) /\ UNCHANGED <<httpVars, opVars>>
    \/ (\E k \in 1..MaxPosts : CatchCallback(k)) /\ UNCHANGED <<httpVars, opVars>>

InitConcurrent ==
    /\ now = 0
    /\ clockSkewMs = DefaultClockSkewMs
    /\ state = "AUTHENTICATED"
    /\ current \in {[token |-> PriorToken, expiresAt |-> e] :
                      e \in {TimeUnitMs - DefaultClockSkewMs,
                             (MaxTime + 1) * TimeUnitMs - DefaultClockSkewMs}}
    /\ inflight = 0
    /\ ops = << >>
    /\ callers = [c \in Callers |-> IdleCaller]
    /\ last = NoResult
    /\ invPending = "no"
    /\ invFlip = FALSE
    /\ NoCall
    /\ NoOperation
    /\ NoLocationCall
    /\ NoConcurrentOps
    /\ NothingCounted

SpecConcurrent == InitConcurrent /\ [][NextConcurrent]_allVars

\* one operation, counted, while other callers use the authenticator.  The
\* steps of the authenticator and of the attempts of a fetchWithRetry call
\* touch nothing in common, so those that fall within a call are taken when
\* the call has returned, before its continuation runs; a call that has
\* thrown ends the operation, and what the authenticator does once the
\* operation is over is not followed
BetweenCalls == op.pc # "done" /\ hpc \in {"none", "returned"}
NextShared ==
    \/ CountedBegin
    \/ (\E k \in 1..MaxPosts : OpTokenSettles(k)) /\ UNCHANGED callVars
    \/ CountedReauthenticates
    \/ OpCompletes /\ UNCHANGED callVars
    \/ OpTransportFails /\ UNCHANGED callVars
    \/ CountedSend
    \/ (FetchResponds /\ got'.status \in CountedStatuses) /\ UNCHANGED <<vars, opVars>>
    \/ FetchFails /\ UNCHANGED <<vars, opVars>>
    \/ AttemptTimesOut /\ UNCHANGED <<vars, opVars>>
    \/ Wake /\ UNCHANGED <<vars, opVars>>
    \/ (BetweenCalls /\ \E c \in Callers : OtherGetToken(c)) /\ UNCHANGED <<httpVars, opVars>>
    \/ (BetweenCalls /\ \E c \in Callers : OtherRejected(c)) /\ UNCHANGED <<httpVars, opVars>>
    \/ (BetweenCalls /\ \E k \in 1..MaxPosts : OtherSettles(k)) /\ UNCHANGED <<httpVars, opVars>>
    \/ (BetweenCalls /\ \E k \in 1..MaxPosts : AuthFetchFails(k)) /\ UNCHANGED <<httpVars, opVars>>
    \/ (BetweenCalls /\ \E k \in 1..MaxPosts : AuthFetchResponds(k)) /\ UNCHANGED <<httpVars, opVars>>
    \/ (BetweenCalls /\ \E k \in 1..MaxPosts : AuthErrorBodyRead(k)) /\ UNCHANGED <<httpVars, opVars>>
    \/ (BetweenCalls /\ \E k \in 1..MaxPosts : AuthJsonRead(k)) /\ UNCHANGED <<httpVars, opVars>>
    \/ (BetweenCalls /\ \E k \in 1..MaxPosts : ThenCallback(k)) /\ UNCHANGED <<httpVars, opVars>>
    \/ (BetweenCalls /\ \E k \in 1..MaxPosts : CatchCallback(k)) /\ UNCHANGED <<httpVars, opVars>>

\* the adapter is new, or it has served operations and holds their token
InitShared ==
    /\ now = 0
    /\ clockSkewMs = DefaultClockSkewMs
    /\ \/ state = "UNAUTHENTICATED" /\ current = NoToken
       \/ /\ state = "AUTHENTICATED"
          /\ current = [token |-> PriorToken,
                        expiresAt |-> (MaxTime + 1) * TimeUnitMs - DefaultClockSkewMs]
    /\ inflight = 0
    /\ ops = << >>
    /\ callers = [c \in Callers |-> IdleCaller]
    /\ last = NoResult
    /\ invPending = "no"
    /\ invFlip = FALSE
    /\ NoCall
    /\ NoOperation
    /\ NoLocationCall
    /\ NoConcurrentOps
    /\ NothingCounted

SpecShared == InitShared /\ [][NextShared]_allVars

\* ---- vocabulary of the properties ------------------------------------------
Waiting == {c \in Callers : callers[c].pc = "waiting"}
Unsettled == {k \in 1..nPosts : ops[k].stage # "settled"}
CachedValid == current # NoToken /\ now < current.expiresAt
CachedExpired == current # NoToken /\ now >= current.expiresAt
\* the step is a getToken() call by c that performs or joins a refresh
EntersRefresh(c) == callers[c].pc = "idle" /\ callers'[c].pc = "waiting"
\* the step is a getToken() call answered from the cache
ServedFromCache ==
    /\ last'.via = "cache"
    /\ last' # last \/ (invPending # "no" /\ invPending' = "no")
GetTokenStep == ServedFromCache \/ \E c \in Callers : EntersRefresh(c)
\* the step settles the promise the callers in Waiting hold
Releases(c) == callers[c].pc = "waiting" /\ callers'[c].pc = "idle"

\* C1: single-flight refresh.  A getToken() issued while no valid token is
\* cached starts an authentication exchange only if no caller is waiting on
\* one, and otherwise attaches to the exchange the waiting callers are on; all
\* callers waiting together are released by one settlement with one and the
\* same outcome, the token or the failure of that exchange.
C1_SingleFlightRefresh ==
    [][ /\ (GetTokenStep /\ ~CachedValid) =>
              \E c \in Callers :
                  /\ EntersRefresh(c)
                  /\ Len(ops') = nPosts + (IF Waiting = {} THEN 1 ELSE 0)
                  /\ \A d \in Waiting : callers'[c].op = callers[d].op
        /\ \A c \in Callers :
              Releases(c) =>
                  /\ \A d \in Waiting : Releases(d)
                  /\ last'.via = "refresh"
                  /\ last'.val = callers[c].op
                  /\ last'.kind \in {"token", "error"}
      ]_vars

C1_Witness ==
    /\ nPosts = 1
    /\ Waiting = Callers
    /\ \A c \in Callers : callers[c].op = 1
    /\ ops[1].stage \in {"thenDone", "catchDone"}

\* C2: at most one authentication exchange is in flight: at most one refresh
\* operation is unsettled, and it is the one the in-flight marker names.
C2_AtMostOneExchangeInFlight ==
    /\ Cardinality(Unsettled) <= 1
    /\ \A k \in Unsettled : inflight = k

C2_Witness ==
    /\ Waiting = Callers
    /\ inflight # 0
    /\ ops[inflight].stage = "posting"
    /\ invPending = "busy"
    /\ now > 0

\* C3: a getToken() called while the cached token is valid returns exactly that
\* token, starts no exchange and leaves the cached token and the in-flight
\* marker unchanged.
C3_ValidTokenServedFromCache ==
    [][ (GetTokenStep /\ CachedValid) =>
            /\ ServedFromCache
            /\ last'.kind = "token"
            /\ last'.val = current.token
            /\ ops' = ops
            /\ callers' = callers
            /\ current' = current
            /\ inflight' = inflight
      ]_vars

C3_Witness ==
    /\ last.via = "cache"
    /\ current # NoToken
    /\ last.val = current.token
    /\ now < current.expiresAt
    /\ now > 0

\* C4: once the clock has reached the skew-adjusted expiry of the cached token,
\* a getToken() is not answered with that expired token: it performs or joins
\* a refresh other than the one that issued the expired token, and it starts
\* an exchange exactly when no caller is already waiting on one.
C4_ExpiredTokenForcesOneRefresh ==
    [][ (GetTokenStep /\ CachedExpired) =>
            \E c \in Callers :
                /\ EntersRefresh(c)
                /\ callers'[c].op # current.token
                /\ Len(ops') = nPosts + (IF Waiting = {} THEN 1 ELSE 0)
      ]_vars

\* C5: every token getToken() hands to a caller, from the cache or from a
\* refresh, is within its skew-adjusted expiry at that instant.
C5_ReturnedTokenUsable == last.kind = "token" => last.usable

\* C6 as stated: the first getToken() after an invalidate() always starts a
\* new authentication exchange, also when a refresh was in flight at the
\* invalidate().
C6_InvalidateAlwaysForcesNewExchange ==
    [][ (GetTokenStep /\ invPending # "no") => Len(ops') = nPosts + 1 ]_vars

\* C6 amended: the first getToken() after an invalidate() that was called
\* while no refresh was in flight starts a new authentication exchange and
\* waits on it, whatever validity the discarded token had left.  After an
\* invalidate() called during a refresh, it starts no exchange as long as
\* that refresh is unsettled or has left a valid token: it joins the refresh
\* or is served the token it installed.
C6_InvalidateForcesNewExchangeWhenIdle ==
    [][ /\ (GetTokenStep /\ invPending = "idle") =>
              \E c \in Callers :
                  /\ EntersRefresh(c)
                  /\ Len(ops') = nPosts + 1
                  /\ callers'[c].op = nPosts + 1
                  /\ inflight' = nPosts + 1
                  /\ ops'[nPosts + 1].stage = "posting"
        /\ (GetTokenStep /\ invPending = "busy" /\ (Unsettled # {} \/ CachedValid)) =>
              /\ ops' = ops
              /\ ServedFromCache \/ \E c \in Callers :
                                        EntersRefresh(c) /\ callers'[c].op \in Unsettled
      ]_vars

C6_Witness ==
    /\ now = 0
    /\ last.kind = "token"
    /\ last.usable
    /\ nPosts = 2
    /\ last.val = 1
    /\ ops[2].stage = "posting"
    /\ \E c \in Callers :
          /\ callers[c].pc = "waiting"
          /\ callers[c].op = 2
          /\ callers[c].after = "idle"

\* C7: invalidate() leaves no cached token, starts no authentication exchange
\* and leaves the in-flight marker, the refresh in flight and its waiters
\* unchanged.
C7_InvalidateIsLocal ==
    [][ (invFlip' # invFlip) =>
            /\ current' = NoToken
            /\ ops' = ops
            /\ inflight' = inflight
            /\ callers' = callers
            /\ last' = last
      ]_vars

C7_Witness ==
    /\ invPending = "busy"
    /\ current = NoToken
    /\ inflight # 0
    /\ ops[inflight].stage = "fulfilled"
    /\ Waiting # {}

\* C8: the settlement of a refresh, successful or failed, clears the in-flight
\* marker; a getToken() issued after a failed refresh has settled, with no
\* valid token cached, starts a new exchange and waits on it.
C8_FailureIsNotSticky ==
    [][ /\ \A k \in 1..nPosts :
              (ops[k].stage # "settled" /\ ops'[k].stage = "settled") => inflight' = 0
        /\ (GetTokenStep /\ ~CachedValid /\ Unsettled = {} /\ last.kind = "error") =>
              \E c \in Callers :
                  /\ EntersRefresh(c)
                  /\ Len(ops') = nPosts + 1
                  /\ callers'[c].op = nPosts + 1
      ]_vars

C8_Witness ==
    /\ last.via = "refresh"
    /\ last.kind = "error"
    /\ inflight = last.val + 1
    /\ ops[inflight].stage = "posting"
    /\ \E c \in Callers : callers[c].pc = "waiting" /\ callers[c].op = inflight

Failed == {k \in 1..nPosts : ops[k].stage \in {"rejected", "catchDone"}}

\* C9 as stated: once a refresh has failed, no token, valid or expired, is
\* stored in the authenticator.
C9_FailureLeavesCacheEmpty == Failed # {} => current = NoToken

\* C9 amended: a failing refresh installs nothing and leaves the cached token
\* as it was; once it has failed no valid token is cached (an expired one may
\* still be stored).
C9_FailureLeavesNoValidToken ==
    /\ [](Failed # {} => ~CachedValid)
    /\ [][ \A k \in 1..nPosts :
               (ops[k].stage \in {"posting", "errBody"} /\ ops'[k].stage = "rejected")
                   => current' = current
         ]_vars

C9_Witness ==
    /\ Failed # {}
    /\ current # NoToken
    /\ now >= current.expiresAt
    /\ current.expiresAt > 0

Terminal == hpc \in {"returned", "thrown"}
\* the method of the request: GET when init.method is absent, and written in
\* upper case
RequestMethod ==
    CASE initMethod \in {"undefined", "get"} -> "GET"
      [] OTHER -> initMethod
NonIdempotent == RequestMethod \notin cfg.idempotentMethods
HasOverride == RequestMethod \in DOMAIN cfg.forceRetryMethods

\* C11: a response status is treated as retryable if and only if it is in the
\* policy's retryOnStatus and either the request method (init.method, upper-
\* cased, GET when absent) is in idempotentMethods or forceRetryMethods has an
\* entry for that method which lists the status; a status not retryable is
\* returned at once.
C11_RetryableIffListedAndAllowed ==
    got.kind = "response" =>
        /\ classified \in {"retryable", "final"}
        /\ classified = "retryable" <=>
              /\ got.status \in cfg.retryOnStatus
              /\ \/ RequestMethod \in cfg.idempotentMethods
                 \/ \E m \in DOMAIN cfg.forceRetryMethods :
                       m = RequestMethod /\ got.status \in cfg.forceRetryMethods[m]
        /\ classified = "final" => hpc = "returned" /\ result.what = got

C11_Witness ==
    /\ got = Response(503)
    /\ classified = "retryable"
    /\ initMethod = "PUT"
    /\ NonIdempotent
    /\ 500 \in cfg.retryOnStatus
    /\ hpc = "sleeping"
\* the policy of C12: the default idempotent methods, 503 retryable, and the
\* override {PUT: [503]}
Put503Policy ==
    /\ cfg.idempotentMethods = {"GET", "HEAD", "DELETE"}
    /\ cfg.forceRetryMethods = [m \in {"PUT"} |-> {503}]
    /\ 503 \in cfg.retryOnStatus

\* C12: under idempotent methods {GET, HEAD, DELETE} and the override
\* {PUT: [503]}, a GET or a PUT all of whose responses are 503 is sent
\* maxRetries + 1 times, no more and no fewer, and then the call returns the
\* last 503 as a response (it does not throw); a PUT that receives 500 has that
\* response returned at once, and when 500 is its first response it was sent
\* exactly once and no backoff sleep was started.
C12_RetriesUntilExhaustedThenReturns ==
    Put503Policy =>
        /\ (RequestMethod \in {"GET", "PUT"} /\ run = Response(503)) =>
              /\ sent <= cfg.maxRetries + 1
              /\ hpc # "thrown"
              /\ hpc = "returned" =>
                    /\ sent = cfg.maxRetries + 1
                    /\ result = [how |-> "returned", what |-> Response(503)]
              /\ (sent = cfg.maxRetries + 1 /\ hpc # "fetching") => hpc = "returned"
              /\ hpc = "sleeping" => sleeps = sent
        /\ (RequestMethod = "PUT" /\ got = Response(500)) =>
              /\ hpc = "returned"
              /\ result = [how |-> "returned", what |-> Response(500)]
        /\ (RequestMethod = "PUT" /\ run = Response(500)) =>
              /\ sent = 1
              /\ sleeps = 0

C12_Witness ==
    /\ Put503Policy
    /\ initMethod = "PUT"
    /\ run = Response(503)
    /\ cfg.maxRetries = MaxRetriesBound
    /\ sent = MaxRetriesBound + 1
    /\ sleeps = MaxRetriesBound
    /\ hpc = "returned"

\* C13: a call whose method is not idempotent and has no override entry sends
\* at most one request, whatever responses or transport failures occur, and a
\* call whose method is not idempotent sends a further request only after a
\* response whose status the override map lists for that method.
C13_NonIdempotentSentAtMostOnce ==
    /\ []((NonIdempotent /\ ~HasOverride) => sent <= 1)
    /\ [][(NonIdempotent /\ sent >= 1 /\ sent' > sent) =>
              /\ got.kind = "response"
              /\ HasOverride
              /\ got.status \in cfg.forceRetryMethods[RequestMethod]
         ]_httpVars

\* C14: an attempt that exceeds the per-attempt timeout is retried like a
\* transport failure: with network-failure retries enabled and attempts
\* left the call sleeps a backoff and sends another attempt, and the timeout
\* reaches the caller only once maxRetries + 1 attempts were sent.
C14_TimeoutIsRetried ==
    /\ [][(hpc = "fetching" /\ got'.kind = "AbortError"
              /\ cfg.retryOnNetworkErrors /\ attempt < cfg.maxRetries) =>
                  hpc' = "sleeping"
         ]_httpVars
    /\ []((result = [how |-> "thrown", what |-> Failure("AbortError")]
              /\ cfg.retryOnNetworkErrors)
            => sent = cfg.maxRetries + 1)

Unjittered(a) ==
    IF cfg.baseDelayMs * 2^a >= cfg.maxDelayMs THEN cfg.maxDelayMs ELSE cfg.baseDelayMs * 2^a
\* the call computes the unjittered backoff of the attempt at every sleep, and
\* that component is non-decreasing over the attempts 0..maxRetries
UnjitteredNonDecreasing ==
    /\ [][sleeps' > sleeps => (lastExp' = Unjittered(attempt) /\ lastExp' >= lastExp)]_httpVars
    /\ [](\A a \in 0..(cfg.maxRetries - 1) : Unjittered(a) <= Unjittered(a + 1))

\* C16 as stated: the unjittered backoff is non-decreasing in the attempt
\* number, and every sleep delay d satisfies
\* 0 <= d <= maxDelay + maxDelay * jitterRatio.
C16_DelayWithinJitterBound ==
    /\ UnjitteredNonDecreasing
    /\ [](/\ 0 <= delay
          /\ 100 * delay <= 100 * cfg.maxDelayMs + cfg.maxDelayMs * cfg.jitterPct)

\* C16, amended: the unjittered backoff is non-decreasing in the attempt
\* number, and every sleep delay d, the jittered delay rounded to the nearest
\* millisecond, satisfies 0 <= d <= maxDelay + maxDelay * jitterRatio + 1/2.
C16_DelayWithinRoundedJitterBound ==
    /\ UnjitteredNonDecreasing
    /\ [](/\ 0 <= delay
          /\ 200 * delay <= 200 * cfg.maxDelayMs + 2 * cfg.maxDelayMs * cfg.jitterPct + 100)

C16_Witness ==
    /\ hpc = "sleeping"
    /\ sleeps = 2
    /\ lastExp = cfg.maxDelayMs
    /\ cfg.baseDelayMs < cfg.maxDelayMs
    /\ delay > cfg.maxDelayMs
    /\ 100 * delay > 100 * cfg.maxDelayMs + cfg.maxDelayMs * cfg.jitterPct
\* ---- vocabulary of the object-operation claims ------------------------------

CallsOf(name) == Cardinality({i \in DOMAIN op.log : op.log[i].call = name})
Rejection(x) == x.result.how = "returned" /\ x.result.what.status \in {401, 403}
Answered(x, status) ==
    /\ x.uniform
    /\ x.result = [how |-> "returned", what |-> [kind |-> "response", status |-> status]]
InExchange == op.pc \in {"exchange1", "exchange2"}
AttachedToken ==
    {h.value : h \in {op.headers[i] : i \in {j \in DOMAIN op.headers :
                                               op.headers[j].name = "X-Auth-Token"}}}

\* C17: within one object operation the calls are getToken, fetchWithRetry and,
\* exactly when the first fetchWithRetry returned 401 or 403, one invalidate, a
\* getToken issued after it and one more fetchWithRetry with the token that
\* getToken gave; invalidate() drops the cached token and is called by no other
\* step, and a 401/403 on the second exchange ends the operation.  A getFile
\* that starts without a cached token and is answered 401 then 200 makes two
\* authentication exchanges and two GET requests and succeeds.
C17_OneForcedReauthentication ==
    /\ [](/\ Len(op.log) <= 5
          /\ CallsOf("invalidate") = (IF Rejection(op.first) THEN 1 ELSE 0)
          /\ CallsOf("fetchWithRetry") <= 1 + CallsOf("invalidate")
          /\ CallsOf("getToken") <= 1 + CallsOf("invalidate")
          /\ \A i \in DOMAIN op.log :
                /\ op.log[i].call = "invalidate" =>
                      /\ i = 3
                      /\ Len(op.log) >= 4
                      /\ op.log[4].call = "getToken"
                /\ op.log[i].call = "fetchWithRetry" =>
                      /\ i > 1
                      /\ op.log[i - 1].call = "getToken"
                      /\ op.log[i - 1].token = op.log[i].token
                      /\ op.log[i].token \in 1..nPosts
          /\ InExchange =>
                /\ op.log[Len(op.log)].call = "fetchWithRetry"
                /\ AttachedToken = {ToString(op.log[Len(op.log)].token)}
          /\ Rejection(op.second) =>
                /\ op.pc = "done"
                /\ CallsOf("invalidate") = 1
                /\ CallsOf("fetchWithRetry") = 2
                /\ nPosts - op.posts0 <= 2
          /\ (op.pc = "done" /\ op.kind = "getFile" /\ ~op.fromCache
                /\ Answered(op.first, 401) /\ Answered(op.second, 200)) =>
                /\ nPosts - op.posts0 = 2
                /\ op.first.sent + op.second.sent = 2
                /\ op.outcome.kind = "success")
    /\ [][/\ invFlip' # invFlip =>
                /\ op.pc = "exchange1" /\ op'.pc = "token2"
                /\ hpc = "returned" /\ result.what.status \in {401, 403}
                /\ current' = NoToken
                /\ callers'[OpCaller].pc = "waiting"
          /\ (op.pc = "exchange2" /\ hpc = "returned") =>
                /\ op'.pc = "done"
                /\ hpc' = "none"
                /\ UNCHANGED vars]_allVars

C17_Witness ==
    /\ op.pc = "done"
    /\ op.kind = "getFile"
    /\ ~op.fromCache
    /\ Answered(op.first, 401)
    /\ Answered(op.second, 200)
    /\ [i \in DOMAIN op.log |-> op.log[i].call]
          = <<"getToken", "fetchWithRetry", "invalidate", "getToken", "fetchWithRetry">>
    /\ op.log[2].token # op.log[5].token
    /\ op.outcome.kind = "success"


GenericStatusFailure ==
    {"Swift GET failed: <status> <statusText>", "Swift PUT failed: <status> <statusText>"}

\* C18: an operation whose re-sent exchange is again answered 401 or 403 fails
\* with an error of its own kind, not the generic failure that other
\* non-success statuses (500, say) raise.
C18_SecondRejectionIsAuthError ==
    (op.pc = "done" /\ Rejection(op.second)) =>
        /\ op.outcome.kind = "failure"
        /\ op.outcome.error \notin GenericStatusFailure

AuthFailures == {"transport", "status", "noToken"}
LastCall == op.log[Len(op.log)]

\* C19: every request an operation sends carries the token header with, as its
\* value, a token that getToken() returned to this operation, whatever extra
\* headers the caller gave; and an operation whose getToken() fails (the first
\* or the forced one) fails with that authentication error and sends no
\* request, or no further request, to the store.
C19_TokenHeaderOnEveryRequest ==
    /\ (InExchange /\ hpc = "fetching") =>
          /\ LastCall.call = "fetchWithRetry"
          /\ LastCall.token \in op.tokens
          /\ HeaderOnWire(op.headers, "x-auth-token") = <<ToString(LastCall.token)>>
    /\ ~InExchange => hpc = "none"
    /\ (op.pc = "done" /\ LastCall.call = "getToken") =>
          /\ op.outcome.kind = "failure"
          /\ op.outcome.error \in AuthFailures
          /\ last.kind = "error"
          /\ CallsOf("fetchWithRetry") = CallsOf("invalidate")

\* the status of the response the operation ended on, 0 when it ended
\* on no response
TerminalExchange == IF CallsOf("invalidate") = 1 THEN op.second ELSE op.first
TerminalStatus ==
    IF LastCall.call = "fetchWithRetry" /\ TerminalExchange.result.how = "returned"
    THEN TerminalExchange.result.what.status ELSE 0
CreateDone == op.pc = "done" /\ op.kind = "createFile"

\* C20: createFile succeeds exactly when the terminal response is a 201; on 412
\* it fails with the precondition failure, on 422 with the integrity failure,
\* which differs from it, and on any other status with the generic failure that
\* carries the status; a create with conditional: true answered 412 is never a
\* success.
C20_CreateFileOutcomeByStatus ==
    CreateDone =>
        /\ op.outcome.kind = "success" <=> TerminalStatus = 201
        /\ TerminalStatus = 412 =>
              op.outcome = [kind |-> "failure", status |-> 412,
                            error |-> "Swift PUT precondition failed (412)"]
        /\ TerminalStatus = 422 =>
              op.outcome = [kind |-> "failure", status |-> 422,
                            error |-> "Swift PUT failed: ETag/content MD5 mismatch (422)"]
        /\ TerminalStatus \notin {0, 201, 412, 422} =>
              op.outcome = [kind |-> "failure", status |-> TerminalStatus,
                            error |-> "Swift PUT failed: <status> <statusText>"]
        /\ (op.conditional = "true" /\ TerminalStatus = 412) =>
              op.outcome.kind = "failure"

C20_Witness ==
    /\ CreateDone
    /\ op.conditional = "true"
    /\ HeaderOnWire(op.headers, "if-none-match") = <<"*">>
    /\ TerminalStatus = 412
    /\ op.outcome.error = "Swift PUT precondition failed (412)"

\* ---- vocabulary of the claims about all operations -----------------------
OpDone(kind) == op.pc = "done" /\ op.kind = kind
OpSucceeded == op.outcome.kind = "success"
OpFailed == op.outcome.kind = "failure"

\* C21: deleteFile succeeds when the terminal status is 204, and when it is 404
\* unless ignoreNotFound was given as false; a 404 with ignoreNotFound false is
\* a failure, a 412 is the precondition failure, and every other status (200
\* and 5xx among them) is a failure.
C21_DeleteFileOutcomeByStatus ==
    OpDone("deleteFile") =>
        /\ OpSucceeded \/ OpFailed
        /\ TerminalStatus = 204 => OpSucceeded
        /\ TerminalStatus = 404 =>
              (OpSucceeded <=> op.ignoreNotFound \in {"undefined", "true"})
        /\ TerminalStatus = 412 =>
              op.outcome = [kind |-> "failure", status |-> 412,
                            error |-> "Swift DELETE precondition failed (412 If-Match)"]
        /\ TerminalStatus \notin {204, 404} => OpFailed
        /\ (OpFailed /\ TerminalStatus \notin {0, 412}) =>
              op.outcome = [kind |-> "failure", status |-> TerminalStatus,
                            error |-> "Swift DELETE failed: <status> <statusText>"]

C21_Witness ==
    /\ OpDone("deleteFile")
    /\ op.ignoreNotFound = "undefined"
    /\ TerminalStatus = 404
    /\ OpSucceeded

SuccessStatus(kind) ==
    CASE kind \in {"createFile", "createFileStream"} -> 201
      [] kind = "deleteFile" -> 204
      [] OTHER -> 200

\* C22: whichever operation it is and however it went, an operation that
\* reports success ended on a response with its success status (201 for the
\* creates, 204 for delete, 200 for getFile and headFile), or is a deleteFile
\* that ended on 404 with ignoreNotFound not false; an operation that ended on
\* a transport or authentication failure reports a failure.
C22_SuccessOnlyOnSuccessStatus ==
    op.pc = "done" =>
        /\ OpSucceeded \/ OpFailed
        /\ OpSucceeded =>
              \/ TerminalStatus = SuccessStatus(op.kind)
              \/ /\ op.kind = "deleteFile"
                 /\ TerminalStatus = 404
                 /\ op.ignoreNotFound # "false"
        /\ TerminalStatus = 0 => OpFailed

C22_Witness ==
    /\ OpDone("createFileStream")
    /\ Rejection(op.first)
    /\ TerminalStatus = 201
    /\ OpSucceeded

\* ---- getFileLocation ---------------------------------------------------
PercentOf(c) ==
    CASE c = "a" -> "a"
      [] c = "." -> "."
      [] c = "/" -> "%2F"
      [] c = " " -> "%20"
      [] c = "%" -> "%25"
      [] c = "é" -> "%C3%A9"
RECURSIVE PercentEncoded(_)
PercentEncoded(name) ==
    IF name = << >> THEN "" ELSE PercentOf(Head(name)) \o PercentEncoded(Tail(name))
StoreUrl == "https://swift/v1/AUTH_project/container"

\* C23: getFileLocation returns, for an adapter with directAccess true, the
\* store URL of the container followed by / and the percent-encoded name, and
\* otherwise mount/files/applicationId/ followed by the percent-encoded name:
\* a value fixed by directAccess, the base URL, the config and the filename;
\* the call changes nothing of the authenticator, of a fetchWithRetry call or
\* of an operation.
C23_FileLocationIsPure ==
    /\ [](loc.result # "none" =>
            loc.result = IF loc.directAccess = "true"
                         THEN StoreUrl \o "/" \o PercentEncoded(loc.filename)
                         ELSE loc.mount \o "/files/" \o loc.applicationId \o "/"
                                  \o PercentEncoded(loc.filename))
    /\ [][loc' # loc =>
            /\ loc' = [loc EXCEPT !.result = loc'.result]
            /\ UNCHANGED <<vars, httpVars, op, cops>>]_allVars

C23_Witness ==
    /\ loc.directAccess = "true"
    /\ loc.filename = <<"/", "é">>
    /\ loc.result = "https://swift/v1/AUTH_project/container/%2F%C3%A9"

\* ---- who changes the token state ----------------------------------------
InvalidateStep == invFlip' # invFlip
RefreshStarts == nPosts' > nPosts
\* a refresh already started moves on: its response, its body, its callbacks
RefreshMovesOn == \E k \in 1..nPosts : ops'[k] # ops[k]
InstallsToken ==
    \E k \in 1..nPosts : ops[k].stage = "jsonBody" /\ ops'[k].stage = "fulfilled"
RefreshSettles ==
    \E k \in 1..nPosts :
        ops[k].stage \in {"thenDone", "catchDone"} /\ ops'[k].stage = "settled"
FreshCall ==
    /\ attempt = 0 /\ sleeps = 0 /\ delay = 0 /\ lastExp = 0
    /\ got = Nothing /\ classified = "none" /\ run = Nothing /\ result = NotSettled

\* C24 as stated: the cached token and the in-flight marker change only in a
\* step that settles a refresh or in invalidate().
C24_TokenStateChangesOnlyInSettlementOrInvalidate ==
    [][(current' # current \/ inflight' # inflight) =>
            (RefreshMovesOn \/ InvalidateStep)]_allVars

\* C24: the cached token changes only when a refresh installs the token it
\* obtained and in invalidate(); the in-flight marker changes only when a
\* refresh is started (set) and when it settles (cleared), never in an
\* invalidate() alone; starting a refresh leaves the cached token as it is; the
\* steps of fetchWithRetry and the completion of an operation change nothing
\* of the authenticator; and every fetchWithRetry call starts from the same
\* state, fixed by its method and policy.
C24_TokenStateFrame ==
    /\ [][/\ current' # current => (InstallsToken \/ InvalidateStep)
          /\ inflight' # inflight => (RefreshStarts \/ RefreshSettles)
          /\ (RefreshStarts /\ ~InvalidateStep) => current' = current
          /\ (InvalidateStep /\ ~RefreshStarts) => inflight' = inflight
          /\ (httpVars' # httpVars /\ op' = op) => UNCHANGED vars
          /\ (op.pc \in {"exchange1", "exchange2"} /\ op'.pc = "done") => UNCHANGED vars
       ]_allVars
    /\ []((hpc = "loop" /\ sent = 0) =>
             /\ FreshCall
             /\ initMethod = opMethod(op)
             /\ cfg = WithDefaults(opPolicy(op)))

C24_Witness ==
    /\ op.pc = "exchange2"
    /\ hpc = "loop"
    /\ sent = 0
    /\ op.first.sent = 1
    /\ current.token = 2
    /\ inflight = 0

\* C25: the step in which a refresh succeeds installs the token of its
\* response, with the expiry the response body reported minus the skew margin,
\* or, when the body reported none, with the time of that step plus ten
\* minutes minus the skew margin.
C25_InstalledExpiry ==
    [][\A k \in 1..nPosts :
          (ops[k].stage = "jsonBody" /\ ops'[k].stage = "fulfilled") =>
              /\ ops[k].status = 201 /\ ops[k].hasToken
              /\ current'.token = k
              /\ current'.expiresAt =
                    IF ops'[k].reported # NoExpiry
                    THEN ops'[k].reported - clockSkewMs
                    ELSE now + 10 * 60 * 1000 - clockSkewMs]_vars

C25_Witness ==
    \E k \in 1..nPosts :
        /\ ops[k].stage = "fulfilled"
        /\ ops[k].reported = NoExpiry
        /\ now = TimeUnitMs
        /\ current = [token |-> k, expiresAt |-> TimeUnitMs + 10 * 60 * 1000 - clockSkewMs]

\* ---- the headers of the creates ------------------------------------------
CreateInFlight ==
    /\ op.kind \in {"createFile", "createFileStream"}
    /\ InExchange
    /\ hpc = "fetching"
Wire(lname) == HeaderOnWire(op.headers, lname)

\* C26: a create, buffered or streamed, sends If-None-Match: * and no If-Match
\* with conditional true, If-Match: <tag> and no If-None-Match with conditional
\* <tag>, and neither header with no conditional, whatever extra headers the
\* caller passes.
C26_PreconditionHeaders ==
    CreateInFlight =>
        /\ op.conditional = "true" =>
              Wire("if-none-match") = <<"*">> /\ Wire("if-match") = << >>
        /\ op.conditional \notin {"none", "true"} =>
              Wire("if-match") = <<op.conditional>> /\ Wire("if-none-match") = << >>
        /\ op.conditional = "none" =>
              Wire("if-none-match") = << >> /\ Wire("if-match") = << >>

\* C27: a buffered createFile sends as ETag the explicit etagHex when one is
\* given and otherwise the MD5 of the whole payload, whatever its other
\* options and extra headers; a streamed create sends an ETag only when an
\* explicit etagHex is given, and then that one.
C27_EntityTagHeader ==
    CreateInFlight =>
        /\ op.kind = "createFile" =>
              Wire("etag") = <<IF op.etagHex # "none" THEN op.etagHex
                               ELSE "md5(payload)">>
        /\ op.kind = "createFileStream" =>
              Wire("etag") = IF op.etagHex # "none" THEN <<op.etagHex>> ELSE << >>

\* ---- C28 ---------------------------------------------------------------------
RECURSIVE MinOf(_)
MinOf(S) ==
    IF S = {} THEN 0
    ELSE LET x == CHOOSE y \in S : TRUE
         IN IF S = {x} THEN x
            ELSE LET m == MinOf(S \ {x}) IN IF x < m THEN x ELSE m
\* every operation sent the same token and has handled its 401/403
AllRejectedSameToken ==
    /\ \A c \in Callers : cops[c].rejected
    /\ \A c, d \in Callers : cops[c].sent = cops[d].sent
\* the exchanges started since the first of these rejections
ExchangesTriggered == nPosts - MinOf({cops[c].at : c \in Callers})
\* operation c handles the rejection of its first request in this step
HandlesRejection(c) == ~cops[c].rejected /\ cops'[c].rejected
\* C28: N operations that all sent the same token and were all rejected with
\* 401/403 trigger at least one and at most N authentication exchanges; an
\* operation handling its rejection discards whatever token is cached, a newer
\* one of a completed refresh included, and with no refresh in flight starts
\* an exchange of its own, otherwise it joins the refresh in flight
C28_ConcurrentRejections ==
    /\ [](AllRejectedSameToken =>
             /\ ExchangesTriggered >= 1
             /\ ExchangesTriggered <= NumCallers)
    /\ [][\A c \in Callers :
             HandlesRejection(c) =>
                /\ current' = NoToken
                /\ IF inflight = 0
                   THEN /\ nPosts' = nPosts + 1
                        /\ inflight' = nPosts + 1
                        /\ callers'[c].op = nPosts + 1
                   ELSE /\ nPosts' = nPosts
                        /\ inflight' = inflight
                        /\ callers'[c].op = inflight]_allVars
\* every operation was rejected with the prior token, each one triggered an
\* exchange, and one of them did so after the other's refresh had completed
C28_Witness ==
    /\ AllRejectedSameToken
    /\ ExchangesTriggered = NumCallers
    /\ \E c, d \in Callers :
          /\ cops[c].pc = "resent"
          /\ cops[d].at >= cops[c].fresh
          /\ cops[c].fresh >= 1

\* ---- C29 ---------------------------------------------------------------------
\* C29: when every attempt eventually responds, fails or is aborted by its
\* timer, a fetchWithRetry call terminates: it sends at most maxRetries + 1
\* requests, sleeps at most maxRetries times, never goes beyond attempt
\* maxRetries, and ends by returning a response or by throwing an error
C29_FetchWithRetryTerminates ==
    /\ [](hpc # "none" =>
             /\ sent <= cfg.maxRetries + 1
             /\ sleeps <= cfg.maxRetries
             /\ attempt <= cfg.maxRetries)
    /\ [](Terminal =>
             \/ hpc = "returned" /\ result.how = "returned" /\ result.what.kind = "response"
             \/ hpc = "thrown" /\ result.how = "thrown"
                   /\ result.what.kind \in {"network", "AbortError"})
    /\ (hpc # "none") ~> Terminal
\* a call that used all its retries, slept before each, and ended by throwing
\* the network failure of its last attempt
C29_Witness ==
    /\ hpc = "thrown"
    /\ cfg.maxRetries = MaxRetriesBound
    /\ attempt = MaxRetriesBound
    /\ sent = MaxRetriesBound + 1
    /\ sleeps = MaxRetriesBound
    /\ result.what.kind = "network"

\* ---- C30 ---------------------------------------------------------------------
\* some getToken() call is pending or a refresh is marked in flight
Busy == inflight # 0 \/ \E c \in Callers : callers[c].pc = "waiting"
Quiet == inflight = 0 /\ \A c \in Callers : callers[c].pc = "idle"
\* the refresh k settles in this step
Settles(k) == k <= nPosts /\ ops[k].stage \in {"thenDone", "catchDone"} /\ ops'[k].stage = "settled"
\* C30: when every authentication exchange eventually settles, every
\* getToken() call that waits for a refresh is eventually resolved or
\* rejected and the in-flight marker is eventually cleared: a waiter always
\* waits for the refresh in flight, the settlement of a refresh, successful
\* or failed, releases every waiter with the token or the error and clears
\* the marker, and every refresh in flight reaches its settlement
C30_TokenManagerLiveness ==
    /\ [](\A c \in Callers :
             callers[c].pc = "waiting" =>
                /\ inflight = callers[c].op
                /\ ops[inflight].stage # "settled")
    /\ [][\A k \in 1..MaxPosts :
             Settles(k) =>
                /\ inflight = k
                /\ Quiet'
                /\ last'.via = "refresh"
                /\ last'.val = k
                /\ last'.kind = IF ops[k].stage = "thenDone" THEN "token" ELSE "error"]_vars
    /\ Busy ~> Quiet
\* a failed refresh has rejected its waiters, and every caller now waits for a
\* second refresh that has failed too and is about to reject them
C30_Witness ==
    /\ nPosts = 2
    /\ ops[1].stage = "settled"
    /\ ops[2].stage = "catchDone"
    /\ inflight = 2
    /\ \A c \in Callers : callers[c].pc = "waiting" /\ callers[c].op = 2
    /\ last = [via |-> "refresh", kind |-> "error", val |-> 1, usable |-> FALSE]

\* ---- C31 ---------------------------------------------------------------------
RECURSIVE PostsSent(_)
\* the requests that the first n refresh operations handed to _fetch
PostsSent(n) == IF n = 0 THEN 0 ELSE ops[n].posts + PostsSent(n - 1)
WaitersOf(k) == {c \in Callers : callers[c].pc = "waiting" /\ callers[c].op = k}
\* the POST of refresh k met a transport error or a status other than 201
PostFailed(k) ==
    \/ ops[k].failure \in {"transport", "status"}
    \/ ops[k].stage = "errBody"
\* C31: a refresh sends one POST and no more, so the POSTs sent are as many
\* as the refresh operations started; the passing of time ends no POST; one
\* transport error or one status such as 503 makes the refresh fail (it is
\* never posted again and never succeeds), and its failure rejects every
\* call waiting on it
C31_OnePostPerRefresh ==
    /\ [](/\ PostsSent(nPosts) = nPosts
          /\ \A k \in 1..nPosts :
                /\ ops[k].posts = 1
                /\ PostFailed(k) => ops[k].stage \in {"errBody", "rejected", "catchDone"}
                /\ ops[k].stage = "errBody" => ops[k].status # 201)
    /\ [][\A k \in 1..nPosts :
             /\ now' # now => ops'[k] = ops[k]
             /\ (ops[k].stage = "posting" /\ ops'[k].stage # "posting") =>
                   /\ \/ ops'[k].failure = "transport"
                      \/ ops'[k].status \in AuthStatuses
                   /\ ops'[k].status # 201 => PostFailed(k)'
             /\ PostFailed(k) =>
                   /\ PostFailed(k)' \/ ops'[k].stage = "settled"
                   /\ ops'[k].stage = "settled" =>
                         /\ WaitersOf(k) # {}
                         /\ \A c \in WaitersOf(k) : callers'[c].pc = "idle"
                         /\ last' = [via |-> "refresh", kind |-> "error", val |-> k,
                                     usable |-> FALSE]]_vars
\* the one POST of a refresh was answered 503 and the refresh has failed
\* with every caller waiting on it
C31_Witness ==
    \E k \in 1..nPosts :
        /\ ops[k].stage = "catchDone"
        /\ ops[k].failure = "status"
        /\ ops[k].status = 503
        /\ ops[k].posts = 1
        /\ WaitersOf(k) = Callers

\* ---- C32 ---------------------------------------------------------------------
\* the requests one fetchWithRetry call of an operation may send
RequestsPerSend == defaultRetryPolicy.maxRetries + 1
\* C32: an operation hands at most 2 * (maxRetries + 1) requests for the
\* store to _fetch, in at most two fetchWithRetry calls of at most
\* maxRetries + 1 requests each, and its getToken() calls start at most two
\* authentication exchanges, whatever the store answers and whatever another
\* caller does with the authenticator meanwhile
C32_RequestsAndExchangesPerOperation ==
    /\ tally.requests <= 2 * RequestsPerSend
    /\ tally.started <= 2
    /\ CallsOf("fetchWithRetry") <= 2
    /\ CallsOf("getToken") <= 2
    /\ InExchange =>
          /\ cfg.maxRetries + 1 = RequestsPerSend
          /\ sent <= RequestsPerSend
          /\ tally.requests <= (CallsOf("fetchWithRetry") - 1) * RequestsPerSend + sent
\* an operation that sent every request it may and started two exchanges,
\* while the other caller was waiting for a token too
C32_Witness ==
    /\ op.pc = "exchange2"
    /\ hpc = "returned"
    /\ tally.requests = 2 * RequestsPerSend
    /\ tally.started = 2
    /\ \E c \in OtherCallers : last.via = "refresh" /\ invFlip

\* ---- C33 ---------------------------------------------------------------------
\* a request of the call in progress is handed to _fetch in this step
Sends == InExchange /\ hpc = "loop" /\ hpc' = "fetching"
\* how the request before it ended, within the call
EarlierInCall == IF sent >= 1 THEN got ELSE Nothing
\* how the request before it ended, within the operation: the first request
\* of the second call comes after the terminal response of the first call
EarlierInOperation ==
    IF sent >= 1 THEN got
    ELSE IF op.pc = "exchange2" THEN op.first.result.what ELSE Nothing
\* the call in progress has the override the operation is to pass, and a
\* streamed PUT that got a response has returned it
PutPolicies ==
    /\ (InExchange /\ op.kind = "createFile") =>
          /\ method = "PUT"
          /\ cfg.forceRetryMethods = [m \in {"PUT"} |-> {503}]
          /\ (got.kind = "response" /\ got.status # 503) => hpc = "returned"
          /\ (got = Response(503) /\ attempt < cfg.maxRetries) => hpc \in {"sleeping", "loop"}
    /\ (InExchange /\ op.kind = "createFileStream") =>
          /\ method = "PUT"
          /\ DOMAIN cfg.forceRetryMethods = {}
          /\ got.kind = "response" => hpc = "returned"
StreamedNeverResentOnStatus ==
    (Sends /\ op.kind = "createFileStream") => EarlierInCall.kind # "response"
\* C33 as stated: the PUT of createFile is sent again only after a 503, of
\* all response statuses
C33_BufferedPutResentOnlyOn503 ==
    /\ []PutPolicies
    /\ [][/\ (Sends /\ op.kind = "createFile") =>
                (EarlierInOperation.kind = "response" => EarlierInOperation.status = 503)
          /\ StreamedNeverResentOnStatus]_allVars
\* C33: createFile passes the override {PUT: [503]} and createFileStream no
\* override; within one fetchWithRetry call the PUT of createFile is sent
\* again after a 503 response and after no other response, and a streamed PUT
\* after no response at all (a response of any status ends the call); a new
\* call of createFile, after 401 or 403, sends the PUT again with the new
\* token
C33_PutResentWithinCallOnlyOn503 ==
    /\ []PutPolicies
    /\ [][/\ (Sends /\ op.kind = "createFile") =>
                /\ EarlierInCall.kind = "response" => EarlierInCall.status = 503
                /\ (sent = 0 /\ op.pc = "exchange2") =>
                      /\ op.first.result.what.kind = "response"
                      /\ op.first.result.what.status \in {401, 403}
          /\ StreamedNeverResentOnStatus]_allVars
\* the PUT of a createFile is in flight for the second time within a call
\* whose attempt before was answered 503
C33_Witness ==
    /\ op.kind = "createFile"
    /\ op.pc = "exchange1"
    /\ hpc = "fetching"
    /\ sent = 2
    /\ run = Response(503)

====
